---- MODULE Spec2Model ----
(***************************************************************************)
(* The reactive core of the repository: Dep (dependency registry), the     *)
(* property interception of defineReactive, the array mutators, Watcher    *)
(* and the scheduler (queueWatcher / flushSchedulerQueue).                 *)
(*                                                                         *)
(* The engine is single threaded.  One action of the model is one handler  *)
(* that runs to completion on the JavaScript stack: a property write with  *)
(* the whole notify() cascade it causes, or one iteration of the flush     *)
(* loop with everything the watcher's getter and callback do.  The         *)
(* handlers are operators over a record of the whole program state         *)
(* (St below); an exception that is propagating is the flag exc of that    *)
(* record.  User code (getters and callbacks) is the program prog chosen   *)
(* in Init.                                                                *)
(***************************************************************************)
EXTENDS Integers, Sequences, FiniteSets, TLC

\* ------------------------------------------------------------------ bounds
\* numbers a reactive property may hold are 0..MaxVal
MaxVal == 1
\* longest array the driver builds
MaxLen == 2
\* the runs of one flush the model follows
MaxRuns == 206
\* the most components that take one record as their root data
MaxAttach == 1

\* ------------------------------------------------------------- constants
MAX_UPDATE_COUNT == 100

\* ----------------------------------------------------------------- values
\* JavaScript values: numbers, NaN and undefined.
NaN == 0 - 1
Undefined == 0 - 2
Num == 0 .. MaxVal
\* what the driver writes into a property
Writable == Num \cup {NaN}

\* x === y
StrictEq(x, y) == x = y /\ x # NaN
\* x * y of two numbers
Times(x, y) == IF x = NaN \/ y = NaN THEN NaN ELSE x * y
\* the record held by data.obj, and a plain record {} the driver holds
ObjRef == 0 - 3
RecRef == 0 - 4
\* isObject(): the two records are the objects among the model's values
isObject(x) == x \in {ObjRef, RecRef}

\* the reactive properties of the component's data, and their Dep
Props == {"a", "b"}
ListProp == "list"
\* the Dep of the Observer attached to the array held by data.list
ListOb == "list.__ob__"
\* the Dep a computed watcher owns (watcher.dep)
OwnDep(w) == <<"w1.dep", "w2.dep", "w3.dep", "w4.dep">>[w]
\* the containers set() and del() are called on, apart from the array
Targets == {"root", "obj"}
\* the reactive property key k of container t
PropOf(t, k) ==
    CASE t = "root" -> k
      [] t = "obj" /\ k = "x" -> "obj.x"
      [] t = "obj" /\ k = "y" -> "obj.y"
\* the Dep of the Observer attached to container t, and to the record v
ObDep(t) == IF t = "root" THEN "root.__ob__" ELSE "obj.__ob__"
ObOf(v) == IF v = ObjRef THEN "obj.__ob__" ELSE "rec.__ob__"
\* every container that may carry an Observer, and the one the value v is
Containers == Targets \cup {"rec"}
ContainerOf(v) == IF v = ObjRef THEN "obj" ELSE "rec"
\* the Observer of the record v, as a value
ObRef(v) == v - 10
\* every property defineReactive may define, and its first value
AllProps == Props \cup {"c", "obj", "obj.x", "obj.y"}
InitVal(p) ==
    CASE p \in Props -> 0
      [] p = "obj" -> ObjRef
      [] p = "obj.x" -> 0
      [] OTHER -> Undefined
Deps ==
    AllProps \cup {ListProp, ListOb, "root.__ob__", "obj.__ob__", "rec.__ob__"}
    \cup {OwnDep(w) : w \in 1 .. 4}

\* no watcher (Dep.target = null / undefined)
NoTarget == 0

\* ------------------------------------------------------ sequence helpers
RECURSIVE RemoveFirst(_, _)
\* remove(arr, item): splices out the first occurrence
RemoveFirst(seq, x) ==
    IF seq = <<>> THEN <<>>
    ELSE IF Head(seq) = x THEN Tail(seq)
    ELSE <<Head(seq)>> \o RemoveFirst(Tail(seq), x)

\* arr.splice(at, 0, x) with a 0-based position
InsertAt(seq, at, x) ==
    SubSeq(seq, 1, at) \o <<x>> \o SubSeq(seq, at + 1, Len(seq))

RECURSIVE InsertSorted(_, _)
InsertSorted(seq, x) ==
    IF seq = <<>> THEN <<x>>
    ELSE IF x < Head(seq) THEN <<x>> \o seq
    ELSE <<Head(seq)>> \o InsertSorted(Tail(seq), x)

RECURSIVE SortAsc(_)
\* arr.sort((a, b) => a - b), a stable ascending sort
SortAsc(seq) ==
    IF seq = <<>> THEN <<>>
    ELSE InsertSorted(SortAsc(SubSeq(seq, 1, Len(seq) - 1)), seq[Len(seq)])

Reverse(seq) == [i \in 1 .. Len(seq) |-> seq[Len(seq) + 1 - i]]

Range(seq) == {seq[i] : i \in DOMAIN seq}

Count(seq, x) == Cardinality({i \in DOMAIN seq : seq[i] = x})

\* F applied to the value of x, x being evaluated once
Bind(x, F(_)) == CHOOSE r \in {F(v) : v \in {x}} : TRUE

Min(x, y) == IF x < y THEN x ELSE y
Max(x, y) == IF x > y THEN x ELSE y

\* ---------------------------------------------------------------- programs
\* A watcher of the program: its options and its user code.
\*   getter: "a" / "b"   return this.a / this.b
\*           "cond"      return this.a === 1 ? this.b : 0
\*           "condB"     return this.b === 1 ? this.a : 0
\*           "hook"      callHook(child, 'created'); return this.a
\*                       (the render of a parent that creates a child)
\*   the hooks of the program's components:
\*           created     this.c; this.b  (c: the computed property of the
\*                       first watcher)
\*           activated   this.b = 0
\*           updated     this.b = 1
\*           "throwA"    v = this.a; if (v === 1) throw ...; return v
\*           "throwB"    the same on this.b
\*           "len"       return this.list.length
\*           "comp"      return this.b === 1 ? this.c : 0  (c: computed of watcher arg)
\*           "tearSelf"  v = this.a; if (v === 1) { this.b; self.teardown() }; return v
\*           "reset"     v = this.a; if (v === 1) this.a = 0; return this.b
\*           "obj"       return this.obj
\*           "objx"      return this.obj.x
\*           "objy"      return this.obj.y
\*           "render"    v = this.a; if (v === 1) queueActivatedComponent(child);
\*                       return v   (the render of a component that holds
\*                       a kept-alive child)
\*           "readThrow" v = this.a; if (v === 1) { this.b; throw } return v
\*           "c"         this.c, c the computed property of watcher arg
\*           "prod"      this.a * this.b
\*   render: the watcher is vm._watcher of a mounted component
\*   cb:     "none"      records its arguments only
\*           "setB"      this.b = newValue
\*           "incB"      this.b = (newValue + 1) % (MaxVal + 1)
\*           "incA"      this.a = (newValue + 1) % (MaxVal + 1)
\*           "throw"     throw ...
\*           "throw1"    if (newValue === 1) throw ...
\*           "tear"      watcher arg .teardown()
W(computed, sync, user, getter, cb, arg) ==
    [computed |-> computed, sync |-> sync, user |-> user, deep |-> FALSE,
     render |-> FALSE, getter |-> getter, cb |-> cb, arg |-> arg]

Batched(user, getter, cb, arg) == W(FALSE, FALSE, user, getter, cb, arg)

\* A program: its watchers in creation order (watcher k has id k), and what
\* the driver does to it from outside the engine.
Program(ws, writes, tears, listOps, reads) ==
    [ws |-> ws, writes |-> writes, tears |-> tears, listOps |-> listOps,
     reads |-> reads, setOps |-> FALSE, recOps |-> FALSE, obsOps |-> FALSE,
     destroyOps |-> FALSE, propsOps |-> FALSE]

ProgOrder ==
    Program(<<Batched(FALSE, "cond", "none", 0),
              Batched(FALSE, "a", "setB", 0),
              Batched(FALSE, "a", "none", 0),
              Batched(FALSE, "b", "none", 0)>>,
            {"a", "b"}, {}, FALSE, {})

ProgErrors ==
    Program(<<Batched(TRUE, "throwA", "throw", 0),
              Batched(FALSE, "throwB", "none", 0),
              Batched(FALSE, "a", "throw1", 0)>>,
            {"a", "b"}, {}, FALSE, {})

ProgLazy ==
    Program(<<W(TRUE, FALSE, FALSE, "a", "none", 0),
              Batched(FALSE, "comp", "none", 1)>>,
            {"a", "b"}, {}, FALSE, {1})

ProgList ==
    Program(<<Batched(FALSE, "len", "none", 0),
              W(FALSE, TRUE, TRUE, "len", "none", 0)>>,
            {}, {}, TRUE, {})

\* a watcher of the array's length; the driver calls set() on the array
ProgSetIndexed ==
    [Program(<<Batched(FALSE, "len", "none", 0)>>, {}, {}, FALSE, {})
       EXCEPT !.setOps = TRUE]

ProgTeardown ==
    Program(<<W(FALSE, TRUE, FALSE, "a", "tear", 2),
              Batched(FALSE, "a", "none", 0),
              Batched(FALSE, "tearSelf", "none", 0)>>,
            {"a", "b"}, {2}, FALSE, {})

ProgCycle ==
    Program(<<Batched(TRUE, "cond", "incB", 0),
              Batched(FALSE, "a", "none", 0),
              Batched(FALSE, "b", "none", 0)>>,
            {"a", "b"}, {}, FALSE, {})

ProgMutual ==
    Program(<<Batched(FALSE, "a", "setB", 0),
              Batched(FALSE, "b", "incA", 0)>>,
            {"a"}, {}, FALSE, {})

ProgNested ==
    Program(<<W(FALSE, TRUE, FALSE, "reset", "none", 0),
              Batched(FALSE, "a", "none", 0)>>,
            {"a", "b"}, {}, FALSE, {})

\* a render watcher whose evaluation calls the created hook of a child; the
\* hook reads a computed property
ProgHook ==
    Program(<<W(TRUE, FALSE, FALSE, "b", "none", 0),
              Batched(FALSE, "hook", "none", 1)>>,
            {"a", "b"}, {}, FALSE, {})

\* a watcher of b; the driver toggles the observation, calls observe() and
\* writes the two records into b
ProgObserve ==
    [Program(<<Batched(FALSE, "b", "none", 0)>>, {}, {}, FALSE, {})
       EXCEPT !.obsOps = TRUE]

\* the computed property c = a * b, a watcher that reads c, and a watcher
\* of a * b
ProgProduct ==
    Program(<<W(TRUE, FALSE, FALSE, "prod", "none", 0),
              Batched(FALSE, "c", "none", 1),
              Batched(FALSE, "prod", "none", 0)>>,
            {"a", "b"}, {}, FALSE, {})

\* a render-like watcher whose getter reads b and throws when a is 1
ProgFatal ==
    Program(<<Batched(FALSE, "readThrow", "none", 0)>>, {"a", "b"}, {}, FALSE, {})

\* a component with the computed property c = a, a render watcher and a
\* user watcher of a; the driver reads c and calls $destroy(); the destroyed
\* hook reads c
ProgDestroy ==
    [Program(<<W(TRUE, FALSE, FALSE, "a", "none", 0),
               [Batched(FALSE, "a", "none", 0) EXCEPT !.render = TRUE],
               Batched(TRUE, "a", "none", 0)>>,
             {"a"}, {}, FALSE, {1})
       EXCEPT !.destroyOps = TRUE]

\* a child component whose prop (and injection) is b, with a watcher of a;
\* the driver initialises and updates the prop from the parent's propsData
ProgProps ==
    [Program(<<Batched(FALSE, "a", "none", 0)>>, {}, {}, FALSE, {})
       EXCEPT !.propsOps = TRUE]

\* a mounted component whose render watcher reads a, and a watcher of b,
\* created after it, whose callback increments a
ProgRerender ==
    Program(<<[Batched(FALSE, "a", "none", 0) EXCEPT !.render = TRUE],
              Batched(FALSE, "b", "incA", 0)>>,
            {"a", "b"}, {}, FALSE, {})

\* a user watcher of a whose callback throws, and a watcher of a behind it
ProgUserThrow ==
    Program(<<Batched(TRUE, "a", "throw", 0), Batched(FALSE, "a", "none", 0)>>,
            {"a"}, {}, FALSE, {})

\* three batched watchers of a: the callback of the first tears the second
\* down, the driver may tear the third down
ProgCancel ==
    Program(<<Batched(FALSE, "a", "tear", 2),
              Batched(FALSE, "a", "none", 0),
              Batched(FALSE, "a", "none", 0)>>,
            {"a"}, {3}, FALSE, {})

\* a watcher of b and the render watcher of a mounted component that has
\* an updated hook and a kept-alive child with an activated hook
ProgPostFlush ==
    Program(<<Batched(FALSE, "b", "none", 0),
              [Batched(FALSE, "render", "none", 0) EXCEPT !.render = TRUE]>>,
            {"a", "b"}, {}, FALSE, {})

\* sync watchers: the callback of the first makes the second subscribe to
\* the property a, or unsubscribe from it, while a's Dep notifies
ProgNotify ==
    Program(<<W(FALSE, TRUE, FALSE, "a", "setB", 0),
              W(FALSE, TRUE, FALSE, "condB", "none", 0)>>,
            {"a"}, {}, FALSE, {})

\* a sync watcher that is not a user watcher and whose getter throws,
\* ahead of another subscriber of the same property
ProgSyncThrow ==
    Program(<<W(FALSE, TRUE, FALSE, "throwA", "none", 0),
              Batched(FALSE, "a", "none", 0)>>,
            {"a"}, {}, FALSE, {})

\* a deep watcher of the record and a watcher of its member y; the
\* driver writes the members and calls set() and del()
ProgRecord ==
    [Program(<<[Batched(FALSE, "obj", "none", 0) EXCEPT !.deep = TRUE],
               Batched(FALSE, "objy", "none", 0)>>,
             {}, {}, FALSE, {})
       EXCEPT !.recOps = TRUE]

Programs ==
    {ProgOrder, ProgErrors, ProgLazy, ProgList, ProgSetIndexed, ProgTeardown,
     ProgCycle, ProgMutual, ProgNested, ProgRecord, ProgNotify, ProgSyncThrow,
     ProgHook, ProgPostFlush, ProgCancel, ProgObserve, ProgProduct, ProgFatal,
     ProgUserThrow, ProgDestroy, ProgProps, ProgRerender}

\* ------------------------------------------------------------------- state
VARIABLES
    prog,         \* the program (never changes)
    val,          \* val[p]: the value defineReactive's closure holds for property p
    list,         \* the elements of the array data.list
    subs,         \* subs[d]: Dep.subs of Dep d
    ws,           \* ws[w]: the mutable fields of watcher w
    target,       \* Dep.target
    targetStack,  \* targetStack
    queue,        \* scheduler: queue (watcher ids)
    has,          \* scheduler: the ids with has[id] === true
    circular,     \* scheduler: circular[id], 0 when absent
    waiting,      \* scheduler: waiting
    flushing,     \* scheduler: flushing
    index,        \* scheduler: index (0-based, as in the source)
    tick,         \* nextTick: flushSchedulerQueue is registered and has not run yet
    pc,           \* where the event loop is: "idle", or in flushSchedulerQueue
    exc,          \* an exception is propagating (FALSE between handlers)
    ret,          \* the value the last getter / read returned
    trace,        \* what the handler that ran last did, in order
    runLog,       \* the ids run() was called on by the current / last flush
    burst,        \* burst[w]: queueWatcher(w) calls since the last flush began
    coEnq,        \* <<A, B, k>>: one write put A and B in the queue after k runs
    reent,        \* watchers queueWatcher was called on during the flush
    warned,       \* the flush loop hit the circular-update guard
    enqLog,       \* enqLog[i]: the watchers put in the queue during run i of runLog
    lateEnq,      \* <<w, k, P>>: run k queued w, above all of P, the ids then pending
    reading,      \* reading[w]: the Deps read so far by the evaluation of w under way
    lastReads,    \* lastReads[w]: the Deps the last evaluation of w read
    everRead,     \* everRead[w]: the Deps any evaluation of w read
    flushStatus,  \* "none", "running", "completed", "aborted" or "crashed"
    keys,         \* keys[t]: the own keys of container t, in insertion order
    observed,     \* the records that carry an Observer (__ob__)
    vmCount,      \* vmCount[t]: Observer.vmCount of container t
    activatedChildren,  \* scheduler: activatedChildren (component names)
    shouldObserve,  \* observer: shouldObserve
    childObs,     \* childObs[p]: the closure of property p holds an Observer in childOb
    component,    \* the component vm: _isBeingDestroyed, _isDestroyed
    members,      \* members[n]: the values of the own keys of container n
    carriesOb,    \* the containers of the graph that have __ob__
    frozen,       \* the containers of the graph that are frozen
    seenObjects,  \* traverse: seenObjects (ids of the Deps of Observers)
    visits,       \* visits[n]: times the last traverse() walked the members of n
    walk,         \* how the last traverse() ended: "none", "returned", "overflow"
    events,       \* vm._events[e]: the handlers of the event e, in order
    armed,        \* the handler "reemit" emits e again when it is called next
    calls,        \* calls[n]: times fn was called through the n-th $once wrapper
    wrappers,     \* number of $once wrappers made so far
    offed         \* the $once wrappers that $off(e, fn) took out

\* the variables of the value graph traverse() walks
graphVars == <<members, carriesOb, frozen, seenObjects, visits, walk>>

\* the variables of the component's event emitter
eventVars == <<events, armed, calls, wrappers, offed>>

vars == <<graphVars, eventVars, component, prog, val, list, subs, ws, target, targetStack, queue, has, circular,
          waiting, flushing, index, tick, pc, exc, ret, trace, runLog, burst,
          coEnq, reent, warned, enqLog, lateEnq, reading, lastReads, everRead,
          flushStatus, keys, observed, vmCount, activatedChildren,
          shouldObserve, childObs>>

\* the state as one record, which the handlers below transform
St ==
    [prog |-> prog, val |-> val, list |-> list, subs |-> subs, ws |-> ws,
     target |-> target, targetStack |-> targetStack, queue |-> queue,
     has |-> has, circular |-> circular, waiting |-> waiting,
     flushing |-> flushing, index |-> index, tick |-> tick, pc |-> pc,
     exc |-> exc, ret |-> ret, trace |-> trace, runLog |-> runLog,
     burst |-> burst, coEnq |-> coEnq, reent |-> reent, warned |-> warned,
     enqLog |-> enqLog, lateEnq |-> lateEnq, reading |-> reading,
     lastReads |-> lastReads, everRead |-> everRead,
     flushStatus |-> flushStatus, keys |-> keys, observed |-> observed,
     vmCount |-> vmCount, activatedChildren |-> activatedChildren,
     shouldObserve |-> shouldObserve, childObs |-> childObs, component |-> component]

\* the next state is the record s
Becomes(s0) ==
  \E s \in {s0} :
    /\ prog' = s.prog
    /\ val' = s.val
    /\ list' = s.list
    /\ subs' = s.subs
    /\ ws' = s.ws
    /\ target' = s.target
    /\ targetStack' = s.targetStack
    /\ queue' = s.queue
    /\ has' = s.has
    /\ circular' = s.circular
    /\ waiting' = s.waiting
    /\ flushing' = s.flushing
    /\ index' = s.index
    /\ tick' = s.tick
    /\ pc' = s.pc
    /\ exc' = s.exc
    /\ ret' = s.ret
    /\ trace' = s.trace
    /\ runLog' = s.runLog
    /\ burst' = s.burst
    /\ coEnq' = s.coEnq
    /\ reent' = s.reent
    /\ warned' = s.warned
    /\ enqLog' = s.enqLog
    /\ lateEnq' = s.lateEnq
    /\ reading' = s.reading
    /\ lastReads' = s.lastReads
    /\ everRead' = s.everRead
    /\ flushStatus' = s.flushStatus
    /\ keys' = s.keys
    /\ observed' = s.observed
    /\ vmCount' = s.vmCount
    /\ activatedChildren' = s.activatedChildren
    /\ shouldObserve' = s.shouldObserve
    /\ childObs' = s.childObs
    /\ component' = s.component
    /\ UNCHANGED graphVars
    /\ UNCHANGED eventVars

\* the initial state is the record s
Starts(s0) ==
  \E s \in {s0} :
    /\ prog = s.prog
    /\ val = s.val
    /\ list = s.list
    /\ subs = s.subs
    /\ ws = s.ws
    /\ target = s.target
    /\ targetStack = s.targetStack
    /\ queue = s.queue
    /\ has = s.has
    /\ circular = s.circular
    /\ waiting = s.waiting
    /\ flushing = s.flushing
    /\ index = s.index
    /\ tick = s.tick
    /\ pc = s.pc
    /\ exc = s.exc
    /\ ret = s.ret
    /\ trace = s.trace
    /\ runLog = s.runLog
    /\ burst = s.burst
    /\ coEnq = s.coEnq
    /\ reent = s.reent
    /\ warned = s.warned
    /\ enqLog = s.enqLog
    /\ lateEnq = s.lateEnq
    /\ reading = s.reading
    /\ lastReads = s.lastReads
    /\ everRead = s.everRead
    /\ flushStatus = s.flushStatus
    /\ keys = s.keys
    /\ observed = s.observed
    /\ vmCount = s.vmCount
    /\ activatedChildren = s.activatedChildren
    /\ shouldObserve = s.shouldObserve
    /\ childObs = s.childObs
    /\ component = s.component


WIds(s) == 1 .. Len(s.prog.ws)

\* one entry of trace
Ev(s, k, w, d, x, y) ==
    [s EXCEPT !.trace = Append(@, [k |-> k, w |-> w, d |-> d, x |-> x, y |-> y])]

\* --------------------------------------------------------------------- Dep
Dep_addSub(s, d, w) == [s EXCEPT !.subs[d] = Append(@, w)]

\* removeSub that removes nothing
Dep_removeSub_Keep(s, d, w) == s

Dep_removeSub(s, d, w) == [s EXCEPT !.subs[d] = RemoveFirst(@, w)]

\* trace: "push" holds the new Dep.target (w) and the one it replaces (x)
pushTarget(s0, t) ==
    Bind(Ev(s0, "push", t, "", s0.target, 0), LAMBDA s :
        [s EXCEPT !.targetStack = IF s.target # NoTarget THEN Append(@, s.target) ELSE @,
                  !.target = t])

\* Dep.target = targetStack.pop(), undefined when the stack is empty;
\* trace: "pop" holds the Dep.target it leaves (w)
popTarget(s0) ==
    Bind(s0, LAMBDA s :
        IF s.targetStack = <<>>
        THEN Ev([s EXCEPT !.target = NoTarget], "pop", NoTarget, "", 0, 0)
        ELSE Ev([s EXCEPT !.target = s.targetStack[Len(s.targetStack)],
                          !.targetStack = SubSeq(@, 1, Len(@) - 1)],
                "pop", s.targetStack[Len(s.targetStack)], "", 0, 0))

\* ----------------------------------------------- Watcher: dependency sets
\* addDep that subscribes without looking at depIds
addDep_AlwaysSub(s0, w, d) ==
    Bind(s0, LAMBDA s :
        IF d \in s.ws[w].newDepIds THEN s
        ELSE Dep_addSub([s EXCEPT !.ws[w].newDepIds = @ \cup {d},
                                  !.ws[w].newDeps = Append(@, d)], d, w))

addDep(s0, w, d) ==
    Bind(s0, LAMBDA s :
        IF d \in s.ws[w].newDepIds THEN s
        ELSE IF d \in s.ws[w].depIds
        THEN [s EXCEPT !.ws[w].newDepIds = @ \cup {d}, !.ws[w].newDeps = Append(@, d)]
        ELSE Dep_addSub([s EXCEPT !.ws[w].newDepIds = @ \cup {d},
                                  !.ws[w].newDeps = Append(@, d)], d, w))

\* trace: "read" holds the Dep read and the Dep.target (w) of the moment
Dep_depend(s0, d) ==
    Bind(Ev(s0, "read", s0.target, d, 0, 0), LAMBDA s :
        IF s.target # NoTarget
        THEN addDep([s EXCEPT !.reading[s.target] = @ \cup {d}], s.target, d)
        ELSE s)

\* cleanupDeps that unsubscribes from nothing
cleanupLoop_Keep(s0, w, i) == s0

RECURSIVE cleanupLoop(_, _, _)
\* the while (i--) loop of cleanupDeps, i counting down over this.deps
cleanupLoop(s0, w, i) ==
    Bind(s0, LAMBDA s :
        IF i = 0 THEN s
        ELSE cleanupLoop(IF s.ws[w].deps[i] \in s.ws[w].newDepIds THEN s
                         ELSE Dep_removeSub(s, s.ws[w].deps[i], w),
                         w, i - 1))

cleanupDeps(s0, w) ==
    Bind(s0, LAMBDA s :
        Bind(cleanupLoop(s, w, Len(s.ws[w].deps)), LAMBDA s1 :
            [s1 EXCEPT !.ws[w].depIds = s1.ws[w].newDepIds,
                       !.ws[w].newDepIds = {},
                       !.ws[w].deps = s1.ws[w].newDeps,
                       !.ws[w].newDeps = <<>>]))

RECURSIVE teardownLoop(_, _, _)
teardownLoop(s0, w, i) ==
    Bind(s0, LAMBDA s :
        IF i = 0 THEN s
        ELSE teardownLoop(Dep_removeSub(s, s.ws[w].deps[i], w), w, i - 1))

teardown(s0, w) ==
    Bind(s0, LAMBDA s :
        IF s.ws[w].active
        THEN [teardownLoop(Ev(s, "teardown", w, "", 0, 0), w, Len(s.ws[w].deps))
                EXCEPT !.ws[w].active = FALSE]
        ELSE s)

\* --------------------------------------------------------------- scheduler
\* a scan that never moves: the watcher is appended, the running flush
\* notwithstanding
scanBack_Tail(q, idx, w, i) == i

RECURSIVE scanBack(_, _, _, _)
RECURSIVE scanBack_NoCursor(_, _, _, _)
\* let i = queue.length - 1; while (i > index && queue[i].id > watcher.id) i--
\* the scan without the test i > index
scanBack_NoCursor(q, idx, w, i) ==
    IF i >= 0 /\ q[i + 1] > w THEN scanBack_NoCursor(q, idx, w, i - 1) ELSE i

scanBack(q, idx, w, i) ==
    IF i > idx /\ q[i + 1] > w THEN scanBack(q, idx, w, i - 1) ELSE i

nextTick(s) == Ev([s EXCEPT !.tick = @ + 1], "nextTick", 0, "", 0, 0)

\* the history of the queueWatcher(w) calls: burst (0, 1, or 2 for twice or
\* more) and reent
noteQueued(s0, w) ==
    Bind(s0, LAMBDA s :
        IF s.pc = "hooks" THEN s
        ELSE [s EXCEPT !.burst[w] = IF s.pc = "idle" THEN Min(@ + 1, 2) ELSE @,
                       !.reent = IF s.pc = "idle" THEN @ ELSE @ \cup {w}])

\* the history of the insertions a run of the flush makes: enqLog and lateEnq
noteInserted(s0, w) ==
    Bind(s0, LAMBDA s :
        IF s.pc \in {"idle", "hooks"} THEN s
        ELSE [s EXCEPT !.enqLog[Len(s.enqLog)] = @ \cup {w},
                       !.lateEnq = IF \A x \in s.has : w > x
                                   THEN @ \cup {<<w, Len(s.runLog), s.has>>}
                                   ELSE @])

\* queueWatcher without the has[id] test
queueWatcher_NoDedup(s0, w) ==
    Bind(noteQueued(s0, w), LAMBDA s :
        Bind(Ev([noteInserted(s, w) EXCEPT !.has = @ \cup {w},
                                           !.queue = Append(s.queue, w)],
                "enq", w, "", 0, 0),
             LAMBDA s1 :
                IF ~s1.waiting THEN nextTick([s1 EXCEPT !.waiting = TRUE]) ELSE s1))

\* queueWatcher that calls nextTick whether or not a flush is waiting
queueWatcher_Reschedule(s0, w) ==
    Bind(noteQueued(s0, w), LAMBDA s :
        IF w \in s.has THEN s
        ELSE nextTick(Ev([noteInserted(s, w) EXCEPT
                             !.has = @ \cup {w},
                             !.waiting = TRUE,
                             !.queue = IF ~s.flushing
                                       THEN Append(s.queue, w)
                                       ELSE InsertAt(s.queue,
                                              scanBack(s.queue, s.index, w,
                                                       Len(s.queue) - 1) + 1,
                                              w)],
                         "enq", w, "", 0, 0)))

queueWatcher(s0, w) ==
    Bind(noteQueued(s0, w), LAMBDA s :
        IF w \in s.has THEN s
        ELSE Bind(Ev([noteInserted(s, w) EXCEPT !.has = @ \cup {w},
                               !.queue = IF ~s.flushing
                                         THEN Append(s.queue, w)
                                         ELSE InsertAt(s.queue,
                                                scanBack(s.queue, s.index, w,
                                                         Len(s.queue) - 1) + 1,
                                                w)],
                     "enq", w, "", 0, 0),
                  LAMBDA s1 :
                    IF ~s1.waiting THEN nextTick([s1 EXCEPT !.waiting = TRUE]) ELSE s1))

resetSchedulerState(s0) ==
    Bind(Ev(s0, "reset", 0, "", 0, 0), LAMBDA s :
        [s EXCEPT !.index = 0, !.queue = <<>>, !.activatedChildren = <<>>,
                  !.has = {},
                  !.circular = [w \in WIds(s) |-> 0],
                  !.waiting = FALSE, !.flushing = FALSE])

queueActivatedComponent(s, vm) == [s EXCEPT !.activatedChildren = Append(@, vm)]

\* handleError(e, vm, info): the external error reporter; it returns normally
handleError(s, w) == Ev([s EXCEPT !.exc = FALSE], "handled", w, "", 0, 0)
\* handleError(e, vm, info) of the callback of watcher w
handleCallbackError(s, w) == Ev([s EXCEPT !.exc = FALSE], "handled", w, "callback", 0, 0)

\* -------------------------------------------- the mutually recursive core
RECURSIVE Dep_notify(_, _)
RECURSIVE notifyLoop_Live(_, _, _, _, _)
RECURSIVE notifyLoop(_, _, _, _, _)
RECURSIVE update(_, _)
RECURSIVE run(_, _)
RECURSIVE getAndInvoke(_, _)
RECURSIVE Watcher_get(_, _)
RECURSIVE evaluate(_, _)
RECURSIVE computedGetter(_, _)
RECURSIVE reactiveSetter(_, _, _)
RECURSIVE Getter(_, _)
RECURSIVE Callback(_, _, _, _)
RECURSIVE callHook(_, _, _)

\* new Observer(value) of a record: a new Dep, vmCount 0, __ob__ set, and
\* walk() gives every key a new closure with a new Dep (RecRef has no keys);
\* the event keeps what shouldObserve was at the call (1 for true)
newObserver(s0, v) ==
    Bind(Ev(s0, "newObserver", 0, ObOf(v), IF s0.shouldObserve THEN 1 ELSE 0, 0), LAMBDA s :
        [s EXCEPT !.observed = @ \cup {v},
                  !.vmCount[ContainerOf(v)] = 0,
                  !.subs = [d \in Deps |->
                              IF \/ d = ObOf(v)
                                 \/ v = ObjRef /\ \E k \in Range(s.keys["obj"]) :
                                                     d = PropOf("obj", k)
                              THEN <<>> ELSE @[d]]])

\* observe() with the test of shouldObserve before the test of __ob__
observe_ToggleFirst(s0, v, asRootData) ==
    Bind(s0, LAMBDA s :
        IF ~isObject(v) \/ ~s.shouldObserve THEN [s EXCEPT !.ret = Undefined]
        ELSE Bind(IF v \in s.observed THEN s ELSE newObserver(s, v), LAMBDA s1 :
                [s1 EXCEPT !.vmCount[ContainerOf(v)] = IF asRootData THEN @ + 1 ELSE @,
                           !.ret = ObRef(v)]))

\* observe() without the test of shouldObserve
observe_NoToggle(s0, v, asRootData) ==
    Bind(s0, LAMBDA s :
        IF ~isObject(v) THEN [s EXCEPT !.ret = Undefined]
        ELSE Bind(IF v \in s.observed THEN s ELSE newObserver(s, v), LAMBDA s1 :
                [s1 EXCEPT !.vmCount[ContainerOf(v)] = IF asRootData THEN @ + 1 ELSE @,
                           !.ret = ObRef(v)]))

\* observe(value, asRootData): the records are plain extensible objects, no
\* VNode and no Vue instance, and the rendering is not on a server; ret is
\* the Observer returned or undefined
observe(s0, v, asRootData) ==
    Bind(s0, LAMBDA s :
        IF ~isObject(v) THEN [s EXCEPT !.ret = Undefined]
        ELSE Bind(IF v \in s.observed THEN s
                  ELSE IF s.shouldObserve THEN newObserver(s, v)
                  ELSE s,
                  LAMBDA s1 :
                    IF v \in s1.observed
                    THEN [s1 EXCEPT !.vmCount[ContainerOf(v)] =
                                        IF asRootData THEN @ + 1 ELSE @,
                                    !.ret = ObRef(v)]
                    ELSE [s1 EXCEPT !.ret = Undefined]))

\* childOb = !shallow && observe(val) in the closure of property p; what
\* observe returned is not the value of the caller
setChildOb(s0, p, v) ==
    Bind(s0, LAMBDA s :
        Bind(observe(s, v, FALSE), LAMBDA s1 :
            [s1 EXCEPT !.childObs[p] = (s1.ret # Undefined), !.ret = s.ret]))

\* childOb of the closure of property p
childOb(s, p) == s.childObs[p]

\* reactiveGetter of a property that does not hold an array
reactiveGetter(s0, p) ==
    Bind(s0, LAMBDA s :
        [(IF childOb(s, p)
          THEN Dep_depend(Dep_depend(s, p), ObOf(s.val[p]))
          ELSE Dep_depend(s, p))
            EXCEPT !.ret = s.val[p]])

\* dependArray(value): the Dep of the Observer of every observed element
dependArray(s0) ==
    Bind(s0, LAMBDA s :
        IF \E i \in DOMAIN s.list : isObject(s.list[i]) /\ s.list[i] \in s.observed
        THEN Dep_depend(s, ObOf(RecRef))
        ELSE s)

\* reactiveGetter of data.list: the array is observed, so childOb.dep is
\* depended on too, and dependArray is called.
\* ret is the array's length, which is all the getters of the model use.
reactiveGetterList(s0) ==
    Bind(s0, LAMBDA s :
        [(IF s.target # NoTarget
          THEN dependArray(Dep_depend(Dep_depend(s, ListProp), ListOb))
          ELSE s)
            EXCEPT !.ret = Len(s.list)])

\* notify() is over: the event tells whether an error left it (y = 1)
noteNotified(s0, n) ==
    Bind(s0, LAMBDA s :
        Ev(s, "notified", 0, s.trace[n].d, n, IF s.exc THEN 1 ELSE 0))

\* the for loop iterating this.subs itself, not the copy
notifyLoop_Live(s0, snap, i, enq, n) ==
    Bind(s0, LAMBDA s :
        IF i > Len(snap) THEN noteNotified(s, n)
        ELSE IF i > Len(s.subs[s.trace[n].d])
        THEN noteNotified([s EXCEPT !.exc = TRUE], n)
        ELSE Bind(update(Ev(s, "deliver", s.subs[s.trace[n].d][i], s.trace[n].d, n, i),
                         s.subs[s.trace[n].d][i]),
                  LAMBDA s1 :
                    IF s1.exc THEN noteNotified(s1, n)
                    ELSE notifyLoop_Live(s1, snap, i + 1, enq, n)))

\* the for loop of Dep.notify over the snapshot subs; enq collects the
\* subscribers this notify put in the queue (for the history coEnq), n is
\* the place in trace of the event of this notify(), which the events
\* "deliver" (subs[i].update() is called) and "notified" refer to
notifyLoop(s0, snap, i, enq, n) ==
    Bind(s0, LAMBDA s :
        IF i > Len(snap)
        THEN noteNotified(
               [s EXCEPT !.coEnq = IF s.pc = "hooks" THEN @
                                   ELSE @ \cup {<<e[1], e[2], Len(s.runLog)>> :
                                                 e \in {x \in enq \X enq : x[1] < x[2]}}],
               n)
        ELSE Bind(update(Ev(s, "deliver", snap[i], s.trace[n].d, n, i), snap[i]),
                  LAMBDA s1 :
                    IF s1.exc THEN noteNotified(s1, n)
                    ELSE notifyLoop(s1, snap, i + 1,
                                    IF snap[i] \in s1.has /\ snap[i] \notin s.has
                                    THEN enq \cup {snap[i]} ELSE enq, n)))

\* const subs = this.subs.slice(): the event of notify() holds the copy
Dep_notify(s0, d) ==
    Bind(s0, LAMBDA s :
        notifyLoop(Ev(s, "notify", 0, d, s.subs[d], 0), s.subs[d], 1, {},
                   Len(s.trace) + 1))

\* trace: update() is called on w; x tells whether w is active, y how many
\* subscribers its own Dep has
noteUpdate(s0, w) ==
    Bind(s0, LAMBDA s :
        Ev(s, "update", w, "", IF s.ws[w].active THEN 1 ELSE 0,
           Len(s.subs[OwnDep(w)])))

\* update() that leaves a computed watcher without subscribers as it is
update_KeepClean(s0, w) ==
    Bind(noteUpdate(s0, w), LAMBDA s :
        IF s.prog.ws[w].computed
        THEN IF Len(s.subs[OwnDep(w)]) = 0
             THEN s
             ELSE getAndInvoke(s, w)
        ELSE IF s.prog.ws[w].sync
        THEN run(s, w)
        ELSE queueWatcher(s, w))

\* update() that puts a sync watcher in the queue like any other
update_QueueSync(s0, w) ==
    Bind(noteUpdate(s0, w), LAMBDA s :
        IF s.prog.ws[w].computed
        THEN IF Len(s.subs[OwnDep(w)]) = 0
             THEN [s EXCEPT !.ws[w].dirty = TRUE]
             ELSE getAndInvoke(s, w)
        ELSE queueWatcher(s, w))

update(s0, w) ==
    Bind(noteUpdate(s0, w), LAMBDA s :
        IF s.prog.ws[w].computed
        THEN IF Len(s.subs[OwnDep(w)]) = 0
             THEN [s EXCEPT !.ws[w].dirty = TRUE]
             ELSE getAndInvoke(s, w)
        ELSE IF s.prog.ws[w].sync
        THEN run(s, w)
        ELSE queueWatcher(s, w))

\* run() without the test of this.active
run_IgnoreActive(s0, w) ==
    Bind(Ev(s0, "run", w, "", 0, 0), LAMBDA s : getAndInvoke(s, w))

run(s0, w) ==
    Bind(Ev(s0, "run", w, "", 0, 0), LAMBDA s :
        IF s.ws[w].active THEN getAndInvoke(s, w) ELSE s)

\* the call of cb in getAndInvoke: cb is this.cb when getAndInvoke is called
\* by run(), and () => this.dep.notify() when it is called by update() of a
\* computed watcher
invoke(s0, w, value, old) ==
    Bind(s0, LAMBDA s :
        IF s.prog.ws[w].computed
        THEN Dep_notify(s, OwnDep(w))
        ELSE Callback(Ev(s, "cb", w, "", value, old), w, value, old))

\* getAndInvoke without the try around the callback of a user watcher
getAndInvoke_NoTry(s0, w) ==
    Bind(Watcher_get(s0, w), LAMBDA s1 :
        IF s1.exc THEN s1
        ELSE IF ~StrictEq(s1.ret, s1.ws[w].value) \/ isObject(s1.ret) \/ s1.prog.ws[w].deep
        THEN invoke([s1 EXCEPT !.ws[w].value = s1.ret, !.ws[w].dirty = FALSE],
                    w, s1.ret, s1.ws[w].value)
        ELSE s1)

getAndInvoke(s0, w) ==
    Bind(Watcher_get(s0, w), LAMBDA s1 :
        IF s1.exc THEN s1
        ELSE IF ~StrictEq(s1.ret, s1.ws[w].value) \/ isObject(s1.ret) \/ s1.prog.ws[w].deep
        THEN Bind(invoke([s1 EXCEPT !.ws[w].value = s1.ret, !.ws[w].dirty = FALSE],
                         w, s1.ret, s1.ws[w].value),
                  LAMBDA s3 :
                    IF s3.exc /\ s3.prog.ws[w].user THEN handleCallbackError(s3, w)
                    ELSE s3)
        ELSE s1)

\* catch (e) of get(): handled for a user watcher, thrown again otherwise;
\* either way value stays undefined
\* catch (e) of get() that hands every error to handleError
getCatch_HandleAll(s0, w) ==
    Bind(s0, LAMBDA s :
        IF s.exc THEN [handleError(s, w) EXCEPT !.ret = Undefined] ELSE s)

getCatch(s0, w) ==
    Bind(s0, LAMBDA s :
        IF s.exc
        THEN [(IF s.prog.ws[w].user THEN handleError(s, w) ELSE s) EXCEPT !.ret = Undefined]
        ELSE s)

\* traverse without the walk over the members
traverse_Shallow(s0, v) == s0

RECURSIVE traverseKeys(_, _, _)
\* while (i--) _traverse(val[keys[i]], seen): the key access calls the
\* getter of the member; the members hold no container, so the inner
\* _traverse returns at once
traverseKeys(s0, ks, i) ==
    Bind(s0, LAMBDA s :
        IF i = 0 THEN s
        ELSE traverseKeys(reactiveGetter(s, PropOf("obj", ks[i])), ks, i - 1))

\* traverse(val): RecRef has no keys, any other value but data.obj is no
\* container
traverse(s0, v) ==
    Bind(s0, LAMBDA s :
        IF v = ObjRef
        THEN [traverseKeys(s, s.keys["obj"], Len(s.keys["obj"])) EXCEPT !.ret = s.ret]
        ELSE s)

\* finally of get(): if (this.deep) traverse(value)
deepTraverse(s0, w) ==
    Bind(s0, LAMBDA s : IF s.prog.ws[w].deep THEN traverse(s, s.ret) ELSE s)

\* an evaluation of w is under way
evaluating(s, w) == s.target = w \/ w \in Range(s.targetStack)

\* The history reading[w] of an evaluation that this one interrupts is put
\* back when this one is over.
Watcher_get(s0, w) ==
    Bind(deepTraverse(getCatch(Getter(pushTarget(Ev([s0 EXCEPT !.reading[w] = {}],
                                                    "get", w, "", 0, 0), w), w), w), w),
         LAMBDA s2 :
            [cleanupDeps(popTarget(s2), w) EXCEPT
                !.ret = s2.ret,
                !.reading[w] = IF evaluating(s0, w) THEN s0.reading[w] ELSE s2.reading[w],
                !.lastReads[w] = s2.reading[w],
                !.everRead[w] = @ \cup s2.reading[w]])

\* evaluate() that leaves dirty set
evaluate_KeepDirty(s0, w) ==
    Bind(s0, LAMBDA s :
        IF s.ws[w].dirty
        THEN Bind(Watcher_get(s, w), LAMBDA s1 :
                IF s1.exc THEN s1 ELSE [s1 EXCEPT !.ws[w].value = s1.ret])
        ELSE [s EXCEPT !.ret = s.ws[w].value])

evaluate(s0, w) ==
    Bind(s0, LAMBDA s :
        IF s.ws[w].dirty
        THEN Bind(Watcher_get(s, w), LAMBDA s1 :
                IF s1.exc THEN s1
                ELSE [s1 EXCEPT !.ws[w].value = s1.ret, !.ws[w].dirty = FALSE])
        ELSE [s EXCEPT !.ret = s.ws[w].value])

Watcher_depend(s, w) == Dep_depend(s, OwnDep(w))

computedGetter(s, w) == evaluate(Watcher_depend(s, w), w)

\* the setter comparing with === alone
reactiveSetter_NoNaN(s0, p, newVal) ==
    Bind(Ev(s0, "set", 0, p, newVal, s0.val[p]), LAMBDA s :
        IF StrictEq(newVal, s.val[p]) THEN s
        ELSE Dep_notify(setChildOb([s EXCEPT !.val[p] = newVal], p, newVal), p))

reactiveSetter(s0, p, newVal) ==
    Bind(Ev(s0, "set", 0, p, newVal, s0.val[p]), LAMBDA s :
        IF StrictEq(newVal, s.val[p])
           \/ (~StrictEq(newVal, newVal) /\ ~StrictEq(s.val[p], s.val[p]))
        THEN s
        ELSE Dep_notify(setChildOb([s EXCEPT !.val[p] = newVal], p, newVal), p))

\* throw when the value just read is 1
throwIf1(s0) ==
    Bind(s0, LAMBDA s : IF StrictEq(s.ret, 1) THEN [s EXCEPT !.exc = TRUE] ELSE s)

Getter(s0, w) ==
    Bind(s0, LAMBDA s :
        CASE s.prog.ws[w].getter = "a" -> reactiveGetter(s, "a")
          [] s.prog.ws[w].getter = "b" -> reactiveGetter(s, "b")
          [] s.prog.ws[w].getter = "cond" ->
               Bind(reactiveGetter(s, "a"), LAMBDA s1 :
                   IF StrictEq(s1.ret, 1) THEN reactiveGetter(s1, "b")
                   ELSE [s1 EXCEPT !.ret = 0])
          [] s.prog.ws[w].getter = "condB" ->
               Bind(reactiveGetter(s, "b"), LAMBDA s1 :
                   IF StrictEq(s1.ret, 1) THEN reactiveGetter(s1, "a")
                   ELSE [s1 EXCEPT !.ret = 0])
          [] s.prog.ws[w].getter = "hook" ->
               Bind(callHook(s, 0, "created"), LAMBDA s1 :
                   IF s1.exc THEN s1 ELSE reactiveGetter(s1, "a"))
          [] s.prog.ws[w].getter = "render" ->
               Bind(reactiveGetter(s, "a"), LAMBDA s1 :
                   IF StrictEq(s1.ret, 1)
                   THEN [queueActivatedComponent(s1, "child") EXCEPT !.ret = s1.ret]
                   ELSE s1)
          [] s.prog.ws[w].getter = "throwA" -> throwIf1(reactiveGetter(s, "a"))
          [] s.prog.ws[w].getter = "throwB" -> throwIf1(reactiveGetter(s, "b"))
          [] s.prog.ws[w].getter = "readThrow" ->
               Bind(reactiveGetter(s, "a"), LAMBDA s1 :
                   IF StrictEq(s1.ret, 1)
                   THEN [reactiveGetter(s1, "b") EXCEPT !.exc = TRUE]
                   ELSE s1)
          [] s.prog.ws[w].getter = "len" -> reactiveGetterList(s)
          [] s.prog.ws[w].getter = "comp" ->
               Bind(reactiveGetter(s, "b"), LAMBDA s1 :
                   IF StrictEq(s1.ret, 1) THEN computedGetter(s1, s.prog.ws[w].arg)
                   ELSE [s1 EXCEPT !.ret = 0])
          [] s.prog.ws[w].getter = "tearSelf" ->
               Bind(reactiveGetter(s, "a"), LAMBDA s1 :
                   IF StrictEq(s1.ret, 1)
                   THEN [teardown(reactiveGetter(s1, "b"), w) EXCEPT !.ret = s1.ret]
                   ELSE s1)
          [] s.prog.ws[w].getter = "c" -> computedGetter(s, s.prog.ws[w].arg)
          [] s.prog.ws[w].getter = "prod" ->
               Bind(reactiveGetter(s, "a"), LAMBDA s1 :
                   Bind(reactiveGetter(s1, "b"), LAMBDA s2 :
                       [s2 EXCEPT !.ret = Times(s1.ret, s2.ret)]))
          [] s.prog.ws[w].getter = "obj" -> reactiveGetter(s, "obj")
          [] s.prog.ws[w].getter \in {"objx", "objy"} ->
               Bind(reactiveGetter(s, "obj"), LAMBDA s1 :
                   IF (IF s.prog.ws[w].getter = "objx" THEN "x" ELSE "y")
                         \in Range(s1.keys["obj"])
                   THEN reactiveGetter(s1, IF s.prog.ws[w].getter = "objx"
                                           THEN "obj.x" ELSE "obj.y")
                   ELSE [s1 EXCEPT !.ret = Undefined])
          [] s.prog.ws[w].getter = "reset" ->
               Bind(reactiveGetter(s, "a"), LAMBDA s1 :
                   Bind(IF StrictEq(s1.ret, 1) THEN reactiveSetter(s1, "a", 0) ELSE s1,
                        LAMBDA s2 : IF s2.exc THEN s2 ELSE reactiveGetter(s2, "b"))))

\* the handlers of the hooks (see the programs)
hookHandler(s0, hook) ==
    Bind(s0, LAMBDA s :
        CASE hook = "created" ->
               Bind(computedGetter(s, 1), LAMBDA s1 :
                   IF s1.exc THEN s1 ELSE reactiveGetter(s1, "b"))
          [] hook = "activated" -> reactiveSetter(s, "b", 0)
          [] hook = "updated" -> reactiveSetter(s, "b", 1)
          [] hook = "beforeDestroy" -> s
          [] hook = "destroyed" -> computedGetter(s, 1))

\* callHook(vm, hook): the handler runs between pushTarget() and
\* popTarget(), what it throws goes to handleError; trace: "hook" holds
\* the watcher vm._watcher (0 for the child) and the name of the hook
callHook(s0, w, hook) ==
    Bind(hookHandler(pushTarget(Ev(s0, "hook", w, hook, 0, 0), NoTarget), hook),
         LAMBDA s1 : popTarget(IF s1.exc THEN handleError(s1, 0) ELSE s1))

Callback(s0, w, value, oldValue) ==
    Bind(s0, LAMBDA s :
        CASE s.prog.ws[w].cb = "none" -> s
          [] s.prog.ws[w].cb = "setB" -> reactiveSetter(s, "b", value)
          [] s.prog.ws[w].cb = "incB" ->
               reactiveSetter(s, "b", IF value \in Num THEN (value + 1) % (MaxVal + 1)
                                      ELSE NaN)
          [] s.prog.ws[w].cb = "incA" ->
               reactiveSetter(s, "a", IF value \in Num THEN (value + 1) % (MaxVal + 1)
                                      ELSE NaN)
          [] s.prog.ws[w].cb = "throw" -> [s EXCEPT !.exc = TRUE]
          [] s.prog.ws[w].cb = "throw1" ->
               IF StrictEq(value, 1) THEN [s EXCEPT !.exc = TRUE] ELSE s
          [] s.prog.ws[w].cb = "tear" -> teardown(s, s.prog.ws[w].arg))

\* ------------------------------------------------------- array mutators
\* Array.prototype.sort without a comparator: the numbers (0..9 at most)
\* in the order of their strings, then the records ("[object Object]"),
\* then the undefined elements
sortDefault(l) ==
    SortAsc(SelectSeq(l, LAMBDA e : e \in Nat))
    \o SelectSeq(l, LAMBDA e : isObject(e))
    \o SelectSeq(l, LAMBDA e : e \notin Nat /\ ~isObject(e))

\* original.apply(this, args) of the seven patched methods
arrayOriginal(l, method, start, deleteCount, items) ==
    CASE method = "push"    -> l \o items
      [] method = "pop"     -> SubSeq(l, 1, Len(l) - 1)
      [] method = "shift"   -> SubSeq(l, 2, Len(l))
      [] method = "unshift" -> items \o l
      [] method = "splice"  ->
           LET from == Min(start, Len(l))
               dc   == Min(deleteCount, Len(l) - from)
           IN  SubSeq(l, 1, from) \o items \o SubSeq(l, from + dc + 1, Len(l))
      [] method = "sort"    -> sortDefault(l)
      [] method = "reverse" -> Reverse(l)

\* the array with length n: the new places are empty
setLength(l, n) ==
    IF n > Len(l) THEN l \o [j \in 1 .. n - Len(l) |-> Undefined] ELSE SubSeq(l, 1, n)

RECURSIVE observeArray(_, _, _)
\* ob.observeArray(inserted), from element i on
observeArray(s0, items, i) ==
    Bind(s0, LAMBDA s :
        IF i > Len(items) THEN s
        ELSE observeArray([observe(s, items[i], FALSE) EXCEPT !.ret = s.ret],
                          items, i + 1))

\* the elements push, unshift and splice insert (inserted stays undefined
\* for the other methods)
inserted(method, items) ==
    IF method \in {"push", "unshift", "splice"} THEN items ELSE <<>>

\* methodsToPatch without 'reverse'
mutator_ReverseUnpatched(s0, method, start, deleteCount, items) ==
    Bind(s0, LAMBDA s :
        IF method = "reverse"
        THEN [s EXCEPT !.list = arrayOriginal(s.list, method, start, deleteCount, items)]
        ELSE Dep_notify(observeArray([s EXCEPT !.list = arrayOriginal(s.list, method,
                                                          start, deleteCount, items)],
                                     inserted(method, items), 1),
                        ListOb))

\* mutator(...args)
mutator(s0, method, start, deleteCount, items) ==
    Bind(s0, LAMBDA s :
        Dep_notify(observeArray([s EXCEPT !.list = arrayOriginal(s.list, method, start,
                                                                 deleteCount, items)],
                                inserted(method, items), 1),
                   ListOb))

\* ------------------------------------------------------------ set and del
\* defineReactive(obj, key, val) of a key the container does not have: the
\* property, its Dep (without subscribers) and the Observer of the value
defineReactive(s0, t, k, v) ==
    Bind(s0, LAMBDA s :
        setChildOb([s EXCEPT !.keys[t] = Append(@, k),
                             !.val[PropOf(t, k)] = v,
                             !.subs[PropOf(t, k)] = <<>>], PropOf(t, k), v))

\* set() that does not set the length of the array first
set_NoGrow(s0, t, k, v) ==
    Bind(s0, LAMBDA s :
        IF t = "list" THEN mutator(s, "splice", k, 1, <<v>>)
        ELSE IF k \in Range(s.keys[t]) THEN reactiveSetter(s, PropOf(t, k), v)
        ELSE IF s.vmCount[t] > 0 THEN Ev(s, "refused", 0, ObDep(t), 0, 0)
        ELSE Dep_notify(defineReactive(s, t, k, v), ObDep(t)))

\* set() that adds the key whatever vmCount is
set_AnyContainer(s0, t, k, v) ==
    Bind(s0, LAMBDA s :
        IF t = "list"
        THEN mutator([s EXCEPT !.list = setLength(@, Max(Len(@), k))], "splice", k, 1, <<v>>)
        ELSE IF k \in Range(s.keys[t]) THEN reactiveSetter(s, PropOf(t, k), v)
        ELSE Dep_notify(defineReactive(s, t, k, v), ObDep(t)))

\* set(target, key, val); target is the array "list" (key an index) or one
\* of Targets, each of which has an Observer
set(s0, t, k, v) ==
    Bind(s0, LAMBDA s :
        IF t = "list"
        THEN mutator([s EXCEPT !.list = setLength(@, Max(Len(@), k))], "splice", k, 1, <<v>>)
        ELSE IF k \in Range(s.keys[t]) THEN reactiveSetter(s, PropOf(t, k), v)
        ELSE IF s.vmCount[t] > 0 THEN Ev(s, "refused", 0, ObDep(t), 0, 0)
        ELSE Dep_notify(defineReactive(s, t, k, v), ObDep(t)))

\* del(target, key)
del(s0, t, k) ==
    Bind(s0, LAMBDA s :
        IF t = "list" THEN mutator(s, "splice", k, 1, <<>>)
        ELSE IF s.vmCount[t] > 0 THEN Ev(s, "refused", 0, ObDep(t), 0, 0)
        ELSE IF k \notin Range(s.keys[t]) THEN s
        ELSE Dep_notify([s EXCEPT !.keys[t] = SelectSeq(@, LAMBDA x : x # k),
                                  !.val[PropOf(t, k)] = Undefined,
                                  !.childObs[PropOf(t, k)] = FALSE],
                        ObDep(t)))

\* arr[i] = v, the plain assignment that no accessor intercepts
indexAssign(s0, i, v) ==
    Bind(s0, LAMBDA s :
        [s EXCEPT !.list = [setLength(s.list, Max(Len(s.list), i + 1))
                                EXCEPT ![i + 1] = v]])

\* ------------------------------------------------------------ flush loop
\* flushSchedulerQueue without queue.sort
flushBegin_NoSort(s0) ==
  Bind(s0, LAMBDA s :
    [s EXCEPT !.flushing = TRUE, !.index = 0,
              !.tick = @ - 1, !.pc = "loop",
              !.runLog = <<>>, !.reent = {}, !.warned = FALSE,
              !.enqLog = <<>>, !.lateEnq = {},
              !.burst = IF s.flushStatus = "none" THEN @ ELSE [w \in WIds(s) |-> 0],
              !.coEnq = IF s.flushStatus = "none" THEN @ ELSE {},
              !.flushStatus = "running"])

\* the first statements of flushSchedulerQueue, up to the loop
flushBegin(s0) ==
  Bind(s0, LAMBDA s :
    [s EXCEPT !.flushing = TRUE, !.queue = SortAsc(s.queue), !.index = 0,
              !.tick = @ - 1, !.pc = "loop",
              !.runLog = <<>>, !.reent = {}, !.warned = FALSE,
              !.enqLog = <<>>, !.lateEnq = {},
              !.burst = IF s.flushStatus = "none" THEN @ ELSE [w \in WIds(s) |-> 0],
              !.coEnq = IF s.flushStatus = "none" THEN @ ELSE {},
              !.flushStatus = "running"])

\* one iteration of the for loop (the build is a development build)
\* the loop condition with the length the queue had when the loop began
loopContinues_CachedLength(s) ==
    s.index < Len(s.queue) - Cardinality({e \in (DOMAIN s.enqLog) \X WIds(s) :
                                            e[2] \in s.enqLog[e[1]]})

\* the loop condition, index < queue.length, with the length read anew
loopContinues(s) == s.index < Len(s.queue)

\* the check breaking the loop when the count reaches MAX_UPDATE_COUNT
circularCheck_AtLimit(s0, w) ==
    Bind(s0, LAMBDA s :
        IF s.exc
        THEN [s EXCEPT !.pc = "idle", !.flushStatus = "crashed"]
        ELSE IF w \in s.has
        THEN IF s.circular[w] + 1 >= MAX_UPDATE_COUNT
             THEN Ev([s EXCEPT !.circular[w] = @ + 1, !.pc = "end", !.warned = TRUE],
                     "warn", w, "", 0, 0)
             ELSE [s EXCEPT !.circular[w] = @ + 1, !.index = @ + 1]
        ELSE [s EXCEPT !.index = @ + 1])

\* the dev-build check after watcher.run() in the loop
circularCheck(s0, w) ==
    Bind(s0, LAMBDA s :
        IF s.exc
        THEN \* nothing in flushSchedulerQueue catches: the callback of nextTick dies
             [s EXCEPT !.pc = "idle", !.flushStatus = "crashed"]
        ELSE IF w \in s.has
        THEN IF s.circular[w] + 1 > MAX_UPDATE_COUNT
             THEN Ev([s EXCEPT !.circular[w] = @ + 1, !.pc = "end", !.warned = TRUE],
                     "warn", w, "", 0, 0)
             ELSE [s EXCEPT !.circular[w] = @ + 1, !.index = @ + 1]
        ELSE [s EXCEPT !.index = @ + 1])

\* an iteration that clears has[id] only after watcher.run()
flushIteration_ClearAfter(s0) ==
    Bind(s0, LAMBDA s :
        Bind(run([s EXCEPT !.runLog = Append(@, s.queue[s.index + 1]),
                           !.enqLog = Append(@, {})],
                 s.queue[s.index + 1]),
             LAMBDA s1 : circularCheck([s1 EXCEPT !.has = @ \ {s.queue[s.index + 1]}],
                                       s.queue[s.index + 1])))

flushIteration(s0) ==
    Bind(s0, LAMBDA s :
        circularCheck(run([s EXCEPT !.has = @ \ {s.queue[s.index + 1]},
                                    !.runLog = Append(@, s.queue[s.index + 1]),
                                    !.enqLog = Append(@, {})],
                          s.queue[s.index + 1]),
                      s.queue[s.index + 1]))

\* activateChildComponent(vm, true) of a child that has no children and
\* whose parents are active: callActivatedHooks has set _inactive
activateChildComponent(s, vm) == callHook(s, 0, "activated")

RECURSIVE callActivatedHooks(_, _, _)
\* for (let i = 0; i < queue.length; i++), on the copy of activatedChildren
callActivatedHooks(s0, q, i) ==
    Bind(s0, LAMBDA s :
        IF i > Len(q) THEN s
        ELSE callActivatedHooks(activateChildComponent(s, q[i]), q, i + 1))

RECURSIVE callUpdatedHooks(_, _, _)
\* while (i--), on the copy of queue, i counting down; only the entries
\* with vm._watcher === watcher && vm._isMounted do anything, so the loop
\* goes from one of them to the next
callUpdatedHooks(s0, q, i) ==
    Bind(s0, LAMBDA s :
        LET r == {k \in 1..i : s.prog.ws[q[k]].render} IN
        IF r = {} THEN s
        ELSE LET j == CHOOSE k \in r : \A l \in r : l <= k IN
             callUpdatedHooks(callHook(s, q[j], "updated"), q, j - 1))

\* the hooks called before the reset
flushFinish_HooksFirst(s0) ==
    Bind(s0, LAMBDA s :
        [resetSchedulerState(
             callUpdatedHooks(callActivatedHooks([s EXCEPT !.pc = "hooks"],
                                                 s.activatedChildren, 1),
                              s.queue, Len(s.queue)))
           EXCEPT !.pc = "idle",
                  !.flushStatus = IF s.warned THEN "aborted" ELSE "completed"])

\* what follows the loop: the copies of the two queues, the reset, the
\* hooks; what the hooks put in the queue is no part of the history of the
\* flush that is over (pc is "hooks" meanwhile)
flushFinish(s0) ==
    Bind(s0, LAMBDA s :
        [callUpdatedHooks(
             callActivatedHooks([resetSchedulerState(s) EXCEPT !.pc = "hooks"],
                                s.activatedChildren, 1),
             s.queue, Len(s.queue))
           EXCEPT !.pc = "idle",
                  !.flushStatus = IF s.warned THEN "aborted" ELSE "completed"])

\* ---------------------------------------------------------- construction
blankWatcher(computed) ==
    [active |-> TRUE, dirty |-> computed, value |-> Undefined,
     deps |-> <<>>, newDeps |-> <<>>, depIds |-> {}, newDepIds |-> {}]

\* new Watcher(...): a computed watcher is not evaluated, any other is
construct(s0, w) ==
    Bind(s0, LAMBDA s :
        IF s.prog.ws[w].computed THEN s
        ELSE Bind(Watcher_get(s, w), LAMBDA s1 : [s1 EXCEPT !.ws[w].value = s1.ret]))

RECURSIVE constructAll(_, _)
constructAll(s0, w) ==
    Bind(s0, LAMBDA s :
        IF w > Len(s.prog.ws) THEN s ELSE constructAll(construct(s, w), w + 1))

\* the component before its watchers are created
bare(p) ==
    [prog |-> p, val |-> [x \in AllProps |-> InitVal(x)], list |-> <<>>,
     keys |-> [t \in Targets |-> IF t = "root" THEN <<"a", "b", "list", "obj">>
                                               ELSE <<"x">>],
     observed |-> {ObjRef},
     vmCount |-> [t \in Containers |-> IF t = "root" THEN 1 ELSE 0],
     activatedChildren |-> <<>>,
     shouldObserve |-> TRUE,
     childObs |-> [x \in AllProps |-> x = "obj"],
     component |-> [isBeingDestroyed |-> FALSE, isDestroyed |-> FALSE],
     subs |-> [d \in Deps |-> <<>>],
     ws |-> [w \in 1 .. Len(p.ws) |-> blankWatcher(p.ws[w].computed)],
     target |-> NoTarget, targetStack |-> <<>>, queue |-> <<>>, has |-> {},
     circular |-> [w \in 1 .. Len(p.ws) |-> 0], waiting |-> FALSE,
     flushing |-> FALSE, index |-> 0, tick |-> 0, pc |-> "idle", exc |-> FALSE,
     ret |-> Undefined, trace |-> <<>>, runLog |-> <<>>,
     burst |-> [w \in 1 .. Len(p.ws) |-> 0], coEnq |-> {}, reent |-> {},
     warned |-> FALSE, enqLog |-> <<>>, lateEnq |-> {},
     reading |-> [w \in 1 .. Len(p.ws) |-> {}],
     lastReads |-> [w \in 1 .. Len(p.ws) |-> {}],
     everRead |-> [w \in 1 .. Len(p.ws) |-> {}],
     flushStatus |-> "none"]

created(p) == [constructAll(bare(p), 1) EXCEPT !.trace = <<>>, !.ret = Undefined]

\* toggleObserving(value)
toggleObserving(s, value) == [s EXCEPT !.shouldObserve = value]

\* ---------------------------------------------------------------- props
\* The prop of the child component is the property b. What the parent
\* passes is propsData[key]: undefined, a number or the plain record; the
\* prop has no default ("none"), a factory that returns the plain record
\* ("rec") or a factory that throws ("throw"); its validator throws or not.
PropsData == {Undefined, 0, RecRef}
PropDefaults == {"none", "rec", "throw"}

\* getPropDefaultValue(vm, prop, key), old being vm._props[key]
getPropDefaultValue(s0, def, old) ==
    Bind(s0, LAMBDA s :
        IF def = "none" THEN [s EXCEPT !.ret = Undefined]
        ELSE IF old # Undefined THEN [s EXCEPT !.ret = old]
        ELSE IF def = "throw" THEN [s EXCEPT !.exc = TRUE]
        ELSE [s EXCEPT !.ret = RecRef])

\* assertProp(prop, key, value, vm, absent): the validator is called
assertProp(s0, throws) ==
    Bind(s0, LAMBDA s : IF throws THEN [s EXCEPT !.exc = TRUE] ELSE s)

\* validateProp without the restoring toggleObserving(prevShouldObserve)
validateProp_LeaveOn(s0, value, def, throws, old) ==
    Bind(Ev(s0, "validateProp", 0, "", value, 0), LAMBDA s :
        IF value # Undefined THEN [assertProp(s, throws) EXCEPT !.ret = value]
        ELSE Bind(getPropDefaultValue(s, def, old), LAMBDA s1 :
                IF s1.exc THEN s1
                ELSE [assertProp(observe(toggleObserving(s1, TRUE), s1.ret, FALSE), throws)
                        EXCEPT !.ret = s1.ret]))

\* validateProp(key, propOptions, propsData, vm)
validateProp(s0, value, def, throws, old) ==
    Bind(Ev(s0, "validateProp", 0, "", value, 0), LAMBDA s :
        IF value # Undefined THEN [assertProp(s, throws) EXCEPT !.ret = value]
        ELSE Bind(getPropDefaultValue(s, def, old), LAMBDA s1 :
                IF s1.exc THEN s1
                ELSE [assertProp(toggleObserving(observe(toggleObserving(s1, TRUE),
                                                         s1.ret, FALSE),
                                                 s1.shouldObserve), throws)
                        EXCEPT !.ret = s1.ret]))

\* defineReactive(props, key, value), the key being new: the closure holds
\* value and childOb = observe(value)
defineProp(s0, value) ==
    Bind(s0, LAMBDA s : setChildOb([s EXCEPT !.val["b"] = value], "b", value))

\* initProps(vm, propsOptions) of a component with the one prop
initProps(s0, isRoot, value, def, throws) ==
    Bind(Ev(s0, "initProps", 0, "", 0, 0), LAMBDA s :
        Bind(validateProp(IF isRoot THEN s ELSE toggleObserving(s, FALSE),
                          value, def, throws, Undefined),
             LAMBDA s1 :
               IF s1.exc THEN s1
               ELSE toggleObserving(defineProp(s1, s1.ret), TRUE)))

\* updateChildComponent(...): the part that updates the props
updateChildComponent(s0, value, def, throws) ==
    Bind(Ev(s0, "updateChildComponent", 0, "", 0, 0), LAMBDA s :
        Bind(validateProp(toggleObserving(s, FALSE), value, def, throws, s.val["b"]),
             LAMBDA s1 :
               IF s1.exc THEN s1
               ELSE Bind(reactiveSetter(s1, "b", s1.ret), LAMBDA s2 :
                       IF s2.exc THEN s2 ELSE toggleObserving(s2, TRUE))))

\* initInjections(vm) with one injection resolved to value
initInjections(s0, value) ==
    Bind(Ev(s0, "initInjections", 0, "", 0, 0), LAMBDA s :
        toggleObserving(defineProp(toggleObserving(s, FALSE), value), TRUE))

\* ------------------------------------------------------------- $destroy
RECURSIVE teardownWatchers(_, _)
\* let i = vm._watchers.length; while (i--) vm._watchers[i].teardown()
teardownWatchers(s0, i) ==
    Bind(s0, LAMBDA s :
        IF i = 0 THEN s ELSE teardownWatchers(teardown(s, i), i - 1))

\* if (vm._watcher) vm._watcher.teardown()
teardownRender(s0) ==
    Bind(s0, LAMBDA s :
        LET r == {w \in WIds(s) : s.prog.ws[w].render} IN
        IF r = {} THEN s ELSE teardown(s, CHOOSE w \in r : TRUE))

\* vm.$destroy(): the root data of the component carries an Observer
destroy(s0) ==
    Bind(Ev(s0, "destroy", 0, "", 0, 0), LAMBDA s :
        IF s.component.isBeingDestroyed THEN s
        ELSE Bind(callHook(s, 0, "beforeDestroy"), LAMBDA s1 :
             Bind(teardownWatchers(
                      teardownRender([s1 EXCEPT !.component.isBeingDestroyed = TRUE]),
                      Len(s.prog.ws)),
                  LAMBDA s2 :
                    callHook([s2 EXCEPT !.vmCount["root"] = @ - 1,
                                        !.component.isDestroyed = TRUE],
                             0, "destroyed"))))

\* ---------------------------------------------------------------- actions
\* a handler starts: the record of the previous handler is dropped, and so
\* is the history of a flush that is over
begin(s0) ==
  Bind(s0, LAMBDA s :
    IF s.flushStatus \in {"completed", "aborted", "crashed"}
    THEN [s EXCEPT !.trace = <<>>, !.runLog = <<>>, !.coEnq = {}, !.reent = {},
                   !.burst = [w \in WIds(s) |-> 0], !.warned = FALSE,
                   !.enqLog = <<>>, !.lateEnq = {},
                   !.flushStatus = "none"]
    ELSE [s EXCEPT !.trace = <<>>])

\* a handler called from outside the engine returns, or throws to its caller
finish(s0, keepRet) ==
    Bind(s0, LAMBDA s :
        [(IF s.exc THEN Ev([s EXCEPT !.exc = FALSE], "escaped", 0, "", 0, 0) ELSE s)
            EXCEPT !.ret = IF keepRet THEN @ ELSE Undefined])

\* no graph of containers: the component's data holds what val and list say
NoGraph ==
    /\ members = <<>> /\ carriesOb = {} /\ frozen = {}
    /\ seenObjects = {} /\ visits = <<>> /\ walk = "none"

\* vm._events = Object.create(null): no handler, no $once wrapper
NoEvents ==
    /\ events = <<>> /\ armed = FALSE /\ calls = <<>> /\ wrappers = 0 /\ offed = {}

Init == (\E p \in Programs : Starts(created(p))) /\ NoGraph /\ NoEvents

\* this.p = v, from outside any watcher
Write(p, v) ==
    /\ pc = "idle"
    /\ p \in prog.writes
    /\ Becomes(finish(reactiveSetter(begin(St), p, v), FALSE))

\* reading the computed property of watcher w, from outside any watcher
ReadComputed(w) ==
    /\ pc = "idle"
    /\ w \in prog.reads
    /\ Becomes(finish(computedGetter(begin(St), w), TRUE))

\* watcher w .teardown(), called by its owner
Teardown(w) ==
    /\ pc = "idle"
    /\ w \in prog.tears
    /\ Becomes(finish(teardown(begin(St), w), FALSE))

\* one of the seven patched methods on data.list
Mutate(method, start, deleteCount, items) ==
    /\ pc = "idle"
    /\ prog.listOps
    /\ Len(arrayOriginal(list, method, start, deleteCount, items)) <= MaxLen
    /\ Becomes(finish(mutator(begin(St), method, start, deleteCount, items), FALSE))

\* data.list[i] = v
IndexAssign(i, v) ==
    /\ pc = "idle"
    /\ prog.listOps
    /\ i < MaxLen
    /\ Becomes(finish(indexAssign(begin(St), i, v), FALSE))

\* Vue.set(data.list, i, v)
SetIndexed(i, v) ==
    /\ pc = "idle"
    /\ prog.setOps
    /\ Max(Len(list), i + 1) <= MaxLen
    /\ Becomes(finish(set(begin(St), "list", i, v), FALSE))

\* no watcher holds the Dep of property p: a Dep created anew for p is
\* the Dep of that name
unheld(p) ==
    /\ subs[p] = <<>>
    /\ \A w \in 1 .. Len(prog.ws) : p \notin Range(ws[w].deps)

\* Vue.set(t, k, v) on the root data or on data.obj
SetKey(t, k, v) ==
    /\ pc = "idle"
    /\ prog.recOps
    /\ k \in Range(keys[t]) \/ unheld(PropOf(t, k))
    /\ Becomes(finish(set(begin(St), t, k, v), FALSE))

\* Vue.delete(t, k) on the root data or on data.obj
DelKey(t, k) ==
    /\ pc = "idle"
    /\ prog.recOps
    /\ Becomes(finish(del(begin(St), t, k), FALSE))

\* data.obj[k] = v, k a key the record has
WriteObj(k, v) ==
    /\ pc = "idle"
    /\ prog.recOps
    /\ k \in Range(keys["obj"])
    /\ Becomes(finish(reactiveSetter(begin(St), PropOf("obj", k), v), FALSE))

ToggleObserving(value) ==
    /\ pc = "idle"
    /\ prog.obsOps
    /\ Becomes(finish(toggleObserving(begin(St), value), FALSE))

\* observe(v, asRootData) called from outside, as initData does for the
\* data of one more component; trace: "observe" holds the arguments
Observe(v, asRootData) ==
    /\ pc = "idle"
    /\ prog.obsOps
    /\ (isObject(v) /\ asRootData) => vmCount[ContainerOf(v)] < MaxAttach
    /\ Becomes(finish(observe(Ev(begin(St), "observe", 0, "", v,
                                 IF asRootData THEN 1 ELSE 0), v, asRootData),
                      TRUE))

\* this.b = v, v one of the records
WriteRef(v) ==
    /\ pc = "idle"
    /\ prog.obsOps
    /\ Becomes(finish(reactiveSetter(begin(St), "b", v), FALSE))

\* the host runs the callback nextTick registered
FlushStart ==
    /\ pc = "idle"
    /\ tick > 0
    /\ Becomes(flushBegin([St EXCEPT !.trace = <<>>]))

FlushRun ==
    /\ pc = "loop"
    /\ loopContinues(St)
    /\ Len(runLog) < MaxRuns
    /\ Becomes(finish(flushIteration([St EXCEPT !.trace = <<>>]), FALSE))

FlushEnd ==
    /\ \/ pc = "end"
       \/ pc = "loop" /\ ~loopContinues(St)
    /\ Becomes(flushFinish([St EXCEPT !.trace = <<>>]))

\* the calls of the patched methods the driver makes: <<method, start,
\* deleteCount, items>>, the last three being the arguments splice reads
MutatorCalls ==
    {<<m, 0, 0, <<>>>> : m \in {"pop", "shift", "sort", "reverse"}}
    \cup {<<m, 0, 0, <<v>>>> : m \in {"push", "unshift"}, v \in Num}
    \cup {<<"splice", st, dc, it>> :
             st \in 0 .. MaxLen, dc \in 0 .. MaxLen,
             it \in {<<>>} \cup {<<v>> : v \in Num}}

\* the keys the driver gives del(), and those it gives set():
\* vm.$destroy()
Destroy ==
    /\ pc = "idle"
    /\ prog.destroyOps
    /\ Becomes(finish(destroy(begin(St)), FALSE))

InitProps(isRoot, value, def, throws) ==
    /\ pc = "idle"
    /\ prog.propsOps
    /\ Becomes(finish(initProps(begin(St), isRoot, value, def, throws), FALSE))

UpdateChildComponent(value, def, throws) ==
    /\ pc = "idle"
    /\ prog.propsOps
    /\ Becomes(finish(updateChildComponent(begin(St), value, def, throws), FALSE))

InitInjections(value) ==
    /\ pc = "idle"
    /\ prog.propsOps
    /\ Becomes(finish(initInjections(begin(St), value), FALSE))

ValidateProp(value, def, throws) ==
    /\ pc = "idle"
    /\ prog.propsOps
    /\ Becomes(finish(validateProp(begin(St), value, def, throws, val["b"]), TRUE))

\* <<container, key>>
KeyCalls == {<<"root", "a">>, <<"root", "c">>, <<"obj", "x">>, <<"obj", "y">>}

SetCalls == KeyCalls \ {<<"root", "a">>}

Next ==
    \/ \E p \in Props, v \in Writable : Write(p, v)
    \/ \E w \in 1 .. Len(prog.ws) : ReadComputed(w)
    \/ \E w \in 1 .. Len(prog.ws) : Teardown(w)
    \/ \E c \in MutatorCalls : Mutate(c[1], c[2], c[3], c[4])
    \/ \E i \in 0 .. MaxLen, v \in Num : IndexAssign(i, v)
    \/ \E i \in 0 .. MaxLen, v \in Num \cup {RecRef} : SetIndexed(i, v)
    \/ \E c \in SetCalls, v \in Writable : SetKey(c[1], c[2], v)
    \/ \E c \in KeyCalls : DelKey(c[1], c[2])
    \/ \E k \in {"x", "y"}, v \in Writable : WriteObj(k, v)
    \/ \E value \in BOOLEAN : ToggleObserving(value)
    \/ \E v \in {0, ObjRef, RecRef}, r \in BOOLEAN : Observe(v, r)
    \/ \E v \in {ObjRef, RecRef} : WriteRef(v)
    \/ Destroy
    \/ \E r \in BOOLEAN, v \in PropsData, d \in PropDefaults, x \in BOOLEAN :
          InitProps(r, v, d, x)
    \/ \E v \in PropsData, d \in PropDefaults, x \in BOOLEAN :
          UpdateChildComponent(v, d, x)
    \/ \E v \in PropsData : InitInjections(v)
    \/ \E v \in PropsData, d \in PropDefaults, x \in BOOLEAN : ValidateProp(v, d, x)
    \/ FlushStart
    \/ FlushRun
    \/ FlushEnd

Spec == Init /\ [][Next]_vars

\* ------------------------------------------------------- deep traversal
\* traverse() as a function of the value it is given: the values are a
\* primitive (0) and the containers 1 .. MaxNodes, each with up to
\* MaxMembers own keys holding values, with or without an Observer, frozen
\* or not (a container that is not extensible, or was stored while
\* shouldObserve was false, has no Observer; one frozen after it was observed
\* has both marks).
MaxNodes == 2
MaxMembers == 2
Nodes == 1 .. MaxNodes
MemberVals == {0} \cup Nodes
\* the frames the call stack has room for: more than any path of distinct
\* containers needs
MaxStack == MaxNodes + 2

RECURSIVE _traverse(_, _, _)
RECURSIVE traverseMembers(_, _, _, _)
\* while (i--) _traverse(val[keys[i]], seen)
traverseMembers(t0, n, i, depth) ==
    Bind(t0, LAMBDA t :
        IF i = 0 \/ t.exc THEN t
        ELSE traverseMembers(_traverse(t, members[n][i], depth + 1), n, i - 1, depth))

\* _traverse(val, seen) in frame depth of the call stack: a call beyond the
\* last frame throws the engine's RangeError; visits counts 0, 1, "2 or more"
_traverse(t0, v, depth) ==
    Bind(t0, LAMBDA t :
        IF depth > MaxStack THEN [t EXCEPT !.exc = TRUE]
        ELSE IF v \notin Nodes \/ v \in frozen THEN t
        ELSE IF v \in carriesOb /\ v \in t.seen THEN t
        ELSE traverseMembers([t EXCEPT !.seen = IF v \in carriesOb THEN @ \cup {v} ELSE @,
                                       !.visits[v] = IF @ < 2 THEN @ + 1 ELSE @],
                             v, Len(members[v]), depth))

\* traverse(val): _traverse(val, seenObjects); seenObjects.clear(), the
\* clear being skipped when _traverse throws
Traverse(v) ==
    /\ LET t == _traverse([seen |-> seenObjects, visits |-> [n \in Nodes |-> 0],
                           exc |-> FALSE], v, 1) IN
        /\ seenObjects' = IF t.exc THEN t.seen ELSE {}
        /\ visits' = t.visits
        /\ walk' = IF t.exc THEN "overflow" ELSE "returned"
    /\ UNCHANGED <<members, carriesOb, frozen>>
    /\ UNCHANGED eventVars
    /\ UNCHANGED <<prog, val, list, subs, ws, target, targetStack, queue, has,
                   circular, waiting, flushing, index, tick, pc, exc, ret, trace,
                   runLog, burst, coEnq, reent, warned, enqLog, lateEnq, reading,
                   lastReads, everRead, flushStatus, keys, observed, vmCount,
                   activatedChildren, shouldObserve, childObs, component>>

\* every graph of containers within the bounds, before any traversal
TraverseInit ==
    /\ Starts(created(ProgRecord))
    /\ members \in [Nodes -> UNION {[1 .. k -> MemberVals] : k \in 0 .. MaxMembers}]
    /\ carriesOb \in SUBSET Nodes
    /\ frozen \in SUBSET Nodes
    /\ seenObjects = {} /\ visits = [n \in Nodes |-> 0] /\ walk = "none"
    /\ NoEvents

TraverseNext == \E v \in MemberVals : Traverse(v)

TraverseSpec == TraverseInit /\ [][TraverseNext]_vars

\* ------------------------------------------------------ reading the history
IsBatched(w) == ~prog.ws[w].computed /\ ~prog.ws[w].sync

\* how often the current / last flush called run() on w
Runs(w) == Count(runLog, w)

\* a flush is over: its loop ran to the end of the queue, or the
\* circular-update guard cut it short
FlushOver == flushStatus \in {"completed", "aborted"}

\* the positions of trace at which handler event k of watcher w stands
At(tr, k, w) == {i \in DOMAIN tr : tr[i].k = k /\ tr[i].w = w}

\* the positions of trace at which event k stands, of whatever watcher
Events(tr, k) == {i \in DOMAIN tr : tr[i].k = k}

\* the handler traced by tr has reset the scheduler and queued a watcher
\* after that: a hook called by the end of a flush did
HookQueued(tr) ==
    \E i \in Events(tr, "reset"), j \in Events(tr, "enq") : i < j

\* the positions of trace at which Dep d is notified
NotifiedAt(tr, d) == {i \in DOMAIN tr : tr[i].k = "notify" /\ tr[i].d = d}

\* ---------------------------------------------------------------------- C1
\* C1 as stated: after a flush, every batched watcher that was notified
\* (once or more) in the burst before it, and that no run of the flush
\* notified again, has had run() called exactly once by the flush.  Flushes
\* that an escaping error ended (C10) are left out here, so the violation
\* TLC reports is one the circular-update guard causes by design.
C1_DedupExactlyOnce ==
    FlushOver =>
        \A w \in 1 .. Len(prog.ws) :
            (IsBatched(w) /\ burst[w] >= 1 /\ w \notin reent) => Runs(w) = 1

\* C1, amended: such a watcher is run at most once by the flush, however it
\* ends, and exactly once when the loop of the flush reached the end of the
\* queue.
C1_Dedup ==
    \A w \in 1 .. Len(prog.ws) :
        (IsBatched(w) /\ burst[w] >= 1 /\ w \notin reent /\ flushStatus # "none") =>
            /\ Runs(w) <= 1
            /\ flushStatus = "completed" => Runs(w) = 1

\* a watcher notified twice or more in the burst was run once by a flush
\* that ran to its end
C1_Witness ==
    /\ flushStatus = "completed"
    /\ \E w \in 1 .. Len(prog.ws) :
          IsBatched(w) /\ burst[w] >= 2 /\ w \notin reent /\ Runs(w) = 1

\* ---------------------------------------------------------------------- C2
\* C2: when one write put the batched watchers A and B, A.id < B.id, in the
\* queue (after k runs of the flush, k = 0 before the flush), every run of B
\* that follows is preceded by a run of A that follows the write too; and the
\* runs of batched watchers never nest (one handler calls run() on at most
\* one of them), so A's run is over when B's begins.
C2_Order ==
    /\ \A e \in coEnq : \A j \in DOMAIN runLog :
          (j > e[3] /\ runLog[j] = e[2]) =>
              \E i \in (e[3] + 1) .. (j - 1) : runLog[i] = e[1]
    /\ Cardinality({i \in DOMAIN trace : trace[i].k = "run" /\ IsBatched(trace[i].w)}) <= 1

\* B stood before A in the subscriber list whose notify() queued both, and
\* the flush ran both
C2_Witness ==
    /\ flushStatus = "completed"
    /\ \E e \in coEnq : \E d \in Deps : \E i, j \in DOMAIN subs[d] :
          /\ e[3] = 0
          /\ subs[d][i] = e[2] /\ subs[d][j] = e[1] /\ i < j
          /\ Runs(e[1]) = 1 /\ Runs(e[2]) = 1

C4_ReentrantSameFlush ==
    /\ FlushOver =>
          \A e \in lateEnq : e[3] # {} =>
              \E j \in DOMAIN runLog :
                  /\ j > e[2] /\ runLog[j] = e[1]
                  /\ \A x \in e[3] : \E i \in (e[2] + 1) .. (j - 1) : runLog[i] = x
    /\ flushStatus = "running" => tick = 0
    /\ FlushOver => (tick = 0 \/ HookQueued(trace))

\* C4, amended: such a watcher is queued behind every watcher then pending
\* and no flush is scheduled for it (the hooks called after the loop may
\* schedule one for what they queue); run() is called on it in that same
\* flush, after those watchers, when the loop of the flush reaches the end of
\* the queue (the circular-update guard may end the loop before).
C4_ReentrantTail ==
    /\ \A e \in lateEnq :
          /\ \A j \in DOMAIN runLog :
                (j > e[2] /\ runLog[j] = e[1]) =>
                    \A x \in e[3] : \E i \in (e[2] + 1) .. (j - 1) : runLog[i] = x
          /\ flushStatus = "completed" =>
                \E j \in DOMAIN runLog : j > e[2] /\ runLog[j] = e[1]
    /\ flushStatus = "running" => tick = 0
    /\ FlushOver => (tick = 0 \/ HookQueued(trace))

\* a run queued a watcher above a watcher that was pending, and the flush ran
\* both before it ended
C4_Witness ==
    /\ flushStatus = "completed"
    /\ \E e \in lateEnq : e[3] # {} /\ e[1] \in Range(runLog)

\* ---------------------------------------------------------------------- C5
\* what the engine holds, the record of the handlers apart
Engine == <<val, list, subs, ws, target, targetStack, queue, has, circular,
            waiting, flushing, index, tick>>

\* C5: a write of the value the property holds (NaN over NaN included)
\* changes nothing the engine holds and notifies no Dep; and a write made by
\* a callback with the value the property holds is not followed by the
\* notify() of the property's Dep.
C5_NoSpuriousNotify ==
    /\ [][\A p \in Props, v \in Writable :
            (v = val[p] /\ Write(p, v)) =>
                /\ UNCHANGED Engine
                /\ \A i \in DOMAIN trace' : trace'[i].k = "set"]_vars
    /\ [](\A i \in DOMAIN trace :
            (trace[i].k = "set" /\ trace[i].x = trace[i].y /\ i < Len(trace)) =>
                ~(trace[i + 1].k = "notify" /\ trace[i + 1].d = trace[i].d))

\* NaN was written over NaN into a property that has subscribers
C5_Witness ==
    /\ Len(trace) = 1
    /\ trace[1].k = "set" /\ trace[1].x = NaN /\ trace[1].y = NaN
    /\ val[trace[1].d] = NaN
    /\ subs[trace[1].d] # <<>>

\* ---------------------------------------------------------------------- C6
\* C6: a watcher stands in the subscriber list of the Deps its last
\* evaluation read only; and a handler that does not evaluate the watcher
\* calls its update() (and queues it) only when it notifies one of those Deps.
C6_StaleDependencyDrop ==
    /\ [](\A w \in 1 .. Len(prog.ws), d \in Deps :
            w \in Range(subs[d]) => d \in lastReads[w])
    /\ [][\A w \in 1 .. Len(prog.ws) :
            ((At(trace', "update", w) # {} \/ At(trace', "enq", w) # {})
                /\ At(trace', "get", w) = {}) =>
              \E d \in lastReads[w] : NotifiedAt(trace', d) # {}]_vars

\* a property was written that an earlier evaluation of an active watcher
\* read and its last one did not: the write notified its Dep and update()
\* was not called on the watcher
C6_Witness ==
    \E w \in 1 .. Len(prog.ws) : \E d \in everRead[w] \ lastReads[w] :
        /\ ws[w].active
        /\ trace # <<>> /\ trace[1].k = "set" /\ trace[1].d = d
        /\ NotifiedAt(trace, d) # {}
        /\ At(trace, "update", w) = {}
        /\ w \notin has

\* ---------------------------------------------------------------------- C7
\* C7, for the watchers torn down by an earlier handler: update() is called
\* on active watchers only.
C7_TeardownFinality ==
    \A i \in DOMAIN trace :
        (trace[i].k = "update" /\ At(trace, "teardown", trace[i].w) = {}) =>
            trace[i].x = 1

\* ---------------------------------------------------------------------- C8
\* what a getter without side effects returns from the properties v
getterValue(g, v) ==
    CASE g = "a" -> v["a"]
      [] g = "b" -> v["b"]
      [] g = "cond" -> IF v["a"] = 1 THEN v["b"] ELSE 0
      [] g = "prod" -> Times(v["a"], v["b"])
      [] g = "obj" -> v["obj"]

C9_ListShape ==
    (pc = "idle" /\ prog.listOps) =>
        /\ \A c \in MutatorCalls :
              Bind(finish(mutator(begin(St), c[1], c[2], c[3], c[4]), FALSE),
                   LAMBDA s :
                  /\ s.list = arrayOriginal(list, c[1], c[2], c[3], c[4])
                  /\ Cardinality(NotifiedAt(s.trace, ListOb)) = 1
                  /\ \A w \in Range(subs[ListOb]) :
                        /\ Cardinality(At(s.trace, "update", w)) = 1
                        /\ IsBatched(w) => w \in s.has
                        /\ prog.ws[w].sync => s.ws[w].value = Len(s.list))
        /\ \A i \in 0 .. MaxLen - 1, v \in Num :
              Bind(finish(indexAssign(begin(St), i, v), FALSE), LAMBDA s :
                  /\ s.trace = <<>>
                  /\ s.list[i + 1] = v
                  /\ <<s.val, s.subs, s.ws, s.queue, s.has, s.waiting, s.tick>>
                        = <<val, subs, ws, queue, has, waiting, tick>>)

\* reverse() on an array of two different elements queued a subscriber
C9_Witness ==
    /\ trace # <<>> /\ trace[1].k = "notify" /\ trace[1].d = ListOb
    /\ Len(list) = 2 /\ list[1] > list[2]
    /\ \E w \in 1 .. Len(prog.ws) : w \in has /\ ListOb \in lastReads[w]

\* --------------------------------------------------------------------- C10
\* C10 as stated: no error leaves a flush, and when the flush has ended the
\* scheduler is reset.
C10_ErrorIsolation ==
    /\ flushStatus # "crashed"
    /\ (pc = "idle" /\ flushStatus # "none") =>
          (queue = <<>> /\ has = {} /\ ~flushing /\ ~waiting)

\* --------------------------------------------------------------------- C11
\* C11 as stated: a failed evaluation of a user watcher yields the cached
\* value, so the cached value of a user watcher is never the undefined of an
\* evaluation that did not return, and no callback of a user watcher is
\* invoked with it as the new value.
C11_PreviousValueKept ==
    /\ \A w \in 1 .. Len(prog.ws) : prog.ws[w].user => ws[w].value # Undefined
    /\ \A i \in DOMAIN trace :
          (trace[i].k = "cb" /\ prog.ws[trace[i].w].user) => trace[i].x # Undefined

\* --------------------------------------------------------------------- C12
\* the callback given to nextTick fires, and the flush it starts goes on
Fairness == WF_vars(FlushStart) /\ WF_vars(FlushRun) /\ WF_vars(FlushEnd)

FairSpec == Init /\ [][Next]_vars /\ Fairness

\* C12 as stated: an active batched watcher that a write has put in the
\* queue has run() called on it by a later step of a flush, unless it is
\* torn down first.
C12_NoMissedUpdates ==
    \A w \in 1 .. 4 :
        (w <= Len(prog.ws) /\ IsBatched(w) /\ ws[w].active /\ w \in has)
            ~> (w <= Len(prog.ws) /\ (~ws[w].active \/ At(trace, "run", w) # {}))

\* --------------------------------------------------------------------- C13
\* C13, as the circular-update guard bounds a flush: the loop is left once
\* a watcher has been re-triggered more than MAX_UPDATE_COUNT times, so no
\* flush calls run() on one watcher more than MAX_UPDATE_COUNT + 1 times.
C13_CycleSafe ==
    \A w \in 1 .. Len(prog.ws) : Runs(w) <= MAX_UPDATE_COUNT + 1

\* --------------------------------------------------------------------- C14
\* C14, a flush being scheduled from the call of nextTick on (waiting is
\* set) until resetSchedulerState: at most one callback is registered with
\* nextTick, none while a flush runs, and waiting is set whenever one is
\* registered or running; a handler calls nextTick once when it puts a
\* watcher in the queue while waiting is not set, and not at all otherwise;
\* a flush takes one registration; what is queued after a flush that is
\* over (by a hook the end of the flush calls after the reset, or later)
\* gets a registration of its own.
C14_SingleFlush ==
    /\ [](/\ tick <= 1
          /\ tick = 1 => (pc = "idle" /\ waiting /\ ~flushing)
          /\ pc # "idle" => (tick = 0 /\ waiting /\ flushing))
    /\ [][/\ Cardinality(Events(trace', "nextTick")) =
                IF \/ Events(trace', "enq") # {} /\ ~waiting
                   \/ HookQueued(trace')
                THEN 1 ELSE 0
          /\ tick' = tick + Cardinality(Events(trace', "nextTick"))
                          - (IF pc = "idle" /\ pc' = "loop" THEN 1 ELSE 0)
          /\ (FlushOver /\ Events(trace', "enq") # {}) =>
                (tick' = 1 /\ runLog' = <<>>)]_vars

\* one handler queued two watchers and called nextTick once
C14_Witness ==
    /\ Cardinality(Events(trace, "enq")) >= 2
    /\ Cardinality(Events(trace, "nextTick")) = 1
    /\ tick = 1 /\ Len(queue) >= 2 /\ pc = "idle"

\* --------------------------------------------------------------------- C18
\* C18: no watcher stands twice in the subscriber list of a Dep, and a
\* handler that notifies once calls update() at most once on each watcher.
C18_SubscriberUniqueness ==
    /\ \A d \in Deps, w \in 1 .. Len(prog.ws) : Count(subs[d], w) <= 1
    /\ Cardinality(Events(trace, "notify")) = 1 =>
          \A w \in 1 .. Len(prog.ws) : Cardinality(At(trace, "update", w)) <= 1

\* a watcher was evaluated from inside its own getter, both evaluations
\* reading a Dep it subscribed to before, and is subscribed once to it
C18_Witness ==
    \E w \in 1 .. Len(prog.ws) :
        /\ Cardinality(At(trace, "get", w)) >= 2
        /\ \E d \in lastReads[w] : Count(subs[d], w) = 1 /\ d \in everRead[w]

\* --------------------------------------------------------------------- C19
\* C19 as stated: between handlers, the deps (and depIds) of every watcher
\* are the Deps its last completed evaluation read, and newDeps (and
\* newDepIds) are empty.
C19_DepsAreLastReads ==
    \A w \in 1 .. Len(prog.ws) :
        /\ Range(ws[w].deps) = lastReads[w]
        /\ ws[w].depIds = lastReads[w]
        /\ ws[w].newDeps = <<>> /\ ws[w].newDepIds = {}

\* --------------------------------------------------------------------- C20
\* C20: between handlers, an active watcher is in the subscriber list of a
\* Dep if and only if the Dep is in its deps.
C20_SubsInverseOfDeps ==
    \A w \in 1 .. Len(prog.ws), d \in Deps :
        ws[w].active => (w \in Range(subs[d]) <=> d \in Range(ws[w].deps))

\* an active watcher dropped a Dep it had subscribed to and kept another
C20_Witness ==
    \E w \in 1 .. Len(prog.ws) :
        /\ ws[w].active
        /\ \E d \in everRead[w] : d \notin Range(ws[w].deps) /\ w \notin Range(subs[d])
        /\ \E d \in Range(ws[w].deps) : w \in Range(subs[d])

C16_RootEditsForbidden ==
    [][/\ \A c \in SetCalls, v \in Writable :
            (c[2] \notin Range(keys[c[1]]) /\ SetKey(c[1], c[2], v)) =>
                IF vmCount[c[1]] > 0
                THEN /\ UNCHANGED <<keys, val, subs, ws, queue, has, tick>>
                     /\ Events(trace', "notify") = {}
                ELSE /\ keys' = [keys EXCEPT ![c[1]] = Append(@, c[2])]
                     /\ val' = [val EXCEPT ![PropOf(c[1], c[2])] = v]
                     /\ Cardinality(NotifiedAt(trace', ObDep(c[1]))) = 1
                     /\ \A w \in Range(subs[ObDep(c[1])]) : At(trace', "update", w) # {}
       /\ \A c \in KeyCalls :
            (c[2] \in Range(keys[c[1]]) /\ DelKey(c[1], c[2])) =>
                IF vmCount[c[1]] > 0
                THEN /\ UNCHANGED <<keys, val, subs, ws, queue, has, tick>>
                     /\ Events(trace', "notify") = {}
                ELSE /\ c[2] \notin Range(keys'[c[1]])
                     /\ Len(keys'[c[1]]) = Len(keys[c[1]]) - 1
                     /\ \A p \in AllProps : p # PropOf(c[1], c[2]) => val'[p] = val[p]
                     /\ Cardinality(NotifiedAt(trace', ObDep(c[1]))) = 1
                     /\ \A w \in Range(subs[ObDep(c[1])]) : At(trace', "update", w) # {}]_vars

\* set() added the key y to data.obj and queued the watchers that read the
\* record, while the root data, whose vmCount is 1, has the keys it began with
C16_Witness ==
    /\ trace # <<>> /\ trace[1].k = "notify" /\ trace[1].d = ObDep("obj")
    /\ keys["obj"] = <<"x", "y">> /\ val["obj.y"] = 1
    /\ vmCount["obj"] = 0 /\ vmCount["root"] = 1
    /\ keys["root"] = <<"a", "b", "list", "obj">>
    /\ has = {1, 2}

\* --------------------------------------------------------------------- C17
\* the deep watchers that are active and hold the record data.obj
DeepOnObj ==
    {w \in 1 .. Len(prog.ws) :
        prog.ws[w].deep /\ IsBatched(w) /\ ws[w].active /\ ws[w].value = ObjRef}

\* C17: a deep watcher of the record that is not waiting for a run is
\* subscribed to the Dep of every member of the record; a write that changes
\* a member puts it in the queue; its run invokes the callback once, with
\* the record as the new and as the old value; and a flush runs it once.
C17_DeepWatch ==
    /\ [](\A w \in DeepOnObj :
            w \notin has =>
                \A k \in Range(keys["obj"]) : w \in Range(subs[PropOf("obj", k)]))
    /\ [](FlushOver => \A w \in DeepOnObj : Runs(w) <= 1)
    /\ [][/\ \A k \in {"x", "y"}, v \in Writable :
                (v # val[PropOf("obj", k)] /\ WriteObj(k, v)) =>
                    /\ val'["obj"] = val["obj"]
                    /\ \A w \in DeepOnObj : w \in has'
          /\ \A w \in DeepOnObj :
                (FlushRun /\ queue[index + 1] = w) =>
                    /\ Cardinality(At(trace', "cb", w)) = 1
                    /\ \A i \in At(trace', "cb", w) :
                          trace'[i].x = ObjRef /\ trace'[i].y = ObjRef]_vars

\* a flush ran the deep watcher alone, after a write to the member x: the
\* callback got the record twice
C17_Witness ==
    /\ runLog = <<1>> /\ 1 \in DeepOnObj
    /\ \E i \in At(trace, "cb", 1) : trace[i].x = ObjRef /\ trace[i].y = ObjRef
    /\ keys["obj"] = <<"x">> /\ val["obj.x"] = 1
    /\ 1 \in Range(subs["obj.x"])
\* --------------------------------------------------------------------- C21
\* the watchers notify() number n of trace called update() on, in order
Delivered(tr, n) ==
    Bind(SelectSeq(tr, LAMBDA e : e.k = "deliver" /\ e.x = n), LAMBDA ds :
        [i \in DOMAIN ds |-> ds[i].w])

\* the places of trace where a notify() begins
Notifies(tr) == {n \in DOMAIN tr : tr[n].k = "notify"}

\* notify() number n of trace is over, and y tells whether an error left it
NotifiedWith(tr, n, y) ==
    \E m \in DOMAIN tr : tr[m].k = "notified" /\ tr[m].x = n /\ tr[m].y = y

RECURSIVE WellNested(_, _, _, _)
\* trace from place i on, read against the stack of contexts a well-nested
\* discipline keeps (st: the contexts pushed over, cur: the active one):
\* every pop leaves the context that was active before the matching push,
\* every read is made under the innermost pushed context, and at the end
\* every push is popped
WellNested(tr, i, st, cur) ==
    IF i > Len(tr) THEN st = <<>> /\ cur = NoTarget
    ELSE CASE tr[i].k = "push" -> WellNested(tr, i + 1, Append(st, cur), tr[i].w)
           [] tr[i].k = "pop" ->
                /\ st # <<>>
                /\ tr[i].w = st[Len(st)]
                /\ WellNested(tr, i + 1, SubSeq(st, 1, Len(st) - 1), st[Len(st)])
           [] tr[i].k = "read" -> tr[i].w = cur /\ WellNested(tr, i + 1, st, cur)
           [] OTHER -> WellNested(tr, i + 1, st, cur)

\* C22 as stated: in what a handler did, the pushes and pops of Dep.target
\* are well nested (each pop restores the target of before the matching
\* push, on error paths too), every property read went to the innermost
\* pushed context, and the context is empty when the handler is over.
C22_ContextStack ==
    /\ WellNested(trace, 1, <<>>, NoTarget)
    /\ target = NoTarget
    /\ targetStack = <<>>

\* --------------------------------------------------------------------- C23
\* C23: the loop of a flush goes on while every count of circular is at most
\* MAX_UPDATE_COUNT and is left early only with the count of the watcher
\* just run above it; the iteration that breaks the loop throws nothing and
\* runs no other watcher; what follows the break changes no property and no
\* array, runs none of the watchers still in the queue, and resets the
\* scheduler, circular included.
C23_CircularGuard ==
    /\ [](pc = "loop" => \A w \in 1 .. Len(prog.ws) : circular[w] <= MAX_UPDATE_COUNT)
    /\ [](pc = "end" =>
            /\ warned /\ flushStatus = "running"
            /\ circular[runLog[Len(runLog)]] = MAX_UPDATE_COUNT + 1
            /\ queue[index + 1] = runLog[Len(runLog)]
            /\ Events(trace, "escaped") = {}
            /\ trace[Len(trace)].k = "warn")
    /\ [](flushStatus = "aborted" =>
            \E w \in 1 .. Len(prog.ws) : Runs(w) > MAX_UPDATE_COUNT)
    /\ [][pc = "end" =>
            /\ FlushEnd
            /\ UNCHANGED <<val, list, keys, subs, ws, runLog>>
            /\ Events(trace', "run") = {} /\ Events(trace', "get") = {}
            /\ queue' = <<>> /\ has' = {} /\ index' = 0
            /\ circular' = [w \in 1 .. Len(prog.ws) |-> 0]
            /\ ~waiting' /\ ~flushing'
            /\ pc' = "idle" /\ flushStatus' = "aborted"]_vars

\* the guard ended a flush with a watcher in the queue that the flush never
\* ran; the scheduler is reset
C23_Witness ==
    /\ flushStatus = "aborted" /\ pc = "idle"
    /\ queue = <<>> /\ has = {} /\ ~waiting
    /\ \E w \in 1 .. Len(prog.ws) :
          /\ Runs(w) = 0
          /\ \E i \in DOMAIN enqLog : w \in enqLog[i]

\* ------------------------------------------------------------------ C24

\* the k-th of the events i of tr, in order
Nth(tr, e, k) == CHOOSE i \in e : Cardinality({j \in e : j <= i}) = k

\* the watchers of q that are the render watcher of a mounted component
RenderWatchers(q) == {k \in DOMAIN q : prog.ws[q[k]].render}

\* C24: the end of the flush loop resets the scheduler and after that calls
\* the activated hooks, one per component that was in activatedChildren,
\* and then the updated hooks, one per render watcher that was in the
\* queue, last to first; what the hooks enqueue is the whole new queue, in
\* order, with the cursor at 0 and flushing false, and a new flush is
\* scheduled exactly when a hook enqueued something
C24_SchedulerReset ==
    [][(pc # "idle" /\ pc' = "idle" /\ flushStatus' \in {"completed", "aborted"}) =>
        LET r    == Events(trace', "reset")
            hk   == Events(trace', "hook")
            act  == {i \in hk : trace'[i].d = "activated"}
            upd  == {i \in hk : trace'[i].d = "updated"}
            enq  == Events(trace', "enq")
            rw   == RenderWatchers(queue)
        IN  /\ Cardinality(r) = 1
            /\ \A i \in DOMAIN trace' : \A j \in r : i # j => j < i
            /\ hk = act \cup upd
            /\ \A i \in act, j \in upd : i < j
            /\ Cardinality(act) = Len(activatedChildren)
            /\ Cardinality(upd) = Cardinality(rw)
            /\ \A k \in 1..Cardinality(upd) :
                   trace'[Nth(trace', upd, k)].w
                       = queue[Nth(queue, rw, Cardinality(rw) + 1 - k)]
            /\ Len(queue') = Cardinality(enq)
            /\ \A k \in 1..Len(queue') : queue'[k] = trace'[Nth(trace', enq, k)].w
            /\ has' = {queue'[k] : k \in 1..Len(queue')}
            /\ index' = 0 /\ ~flushing' /\ activatedChildren' = <<>>
            /\ waiting' = (enq # {})
            /\ tick' = tick + (IF enq # {} THEN 1 ELSE 0)
            /\ Cardinality(Events(trace', "nextTick")) = (IF enq # {} THEN 1 ELSE 0)
      ]_vars

\* a flush has ended whose activated hook and whose updated hook both ran,
\* after which the updated hook's write put watcher 1 in the new queue
C24_Witness ==
    /\ pc = "idle" /\ flushStatus = "completed"
    /\ \E i, j, k \in DOMAIN trace :
           /\ i < j /\ j < k
           /\ trace[i].k = "hook" /\ trace[i].d = "activated"
           /\ trace[j].k = "hook" /\ trace[j].d = "updated"
           /\ trace[k].k = "enq" /\ trace[k].w = 1
    /\ queue = <<1>> /\ has = {1} /\ tick = 1 /\ waiting /\ ~flushing
    /\ val["b"] = 1

\* ------------------------------------------------------------------ C25

\* C25: tearing down a watcher that is pending (queued and not the one
\* being run) leaves it pending, and the
\* iteration of the flush loop that reaches a torn-down watcher calls run()
\* and nothing else: no getter, no callback, every watcher (value, deps,
\* newDeps), every subscriber list and every property as before, nothing
\* thrown, and the loop goes on to the next entry of the queue
C25_Cancellation ==
    [][/\ \A w \in DOMAIN ws :
             (/\ w \in has /\ ws[w].active /\ ~ws'[w].active
              /\ ~(pc = "loop" /\ runLog' # runLog /\ queue[index + 1] = w)) =>
                 \E k \in index' + 1 .. Len(queue') : queue'[k] = w
       /\ (pc = "loop" /\ runLog' # runLog /\ ~ws[queue[index + 1]].active) =>
             /\ trace' = <<[k |-> "run", w |-> queue[index + 1], d |-> "",
                            x |-> 0, y |-> 0]>>
             /\ ws' = ws /\ subs' = subs /\ val' = val /\ list' = list
             /\ lastReads' = lastReads
             /\ queue' = queue /\ index' = index + 1
             /\ pc' = "loop" /\ ~exc' /\ flushing'
      ]_vars

\* the flush has run the three watchers of a: the second was torn down by
\* the callback of the first, the third before the flush while it was
\* queued; neither has the new value of a
C25_Witness ==
    /\ prog = ProgCancel
    /\ pc = "loop" /\ runLog = <<1, 2, 3>> /\ queue = <<1, 2, 3>> /\ index = 3
    /\ At(trace, "run", 3) # {}
    /\ ~ws[2].active /\ ~ws[3].active
    /\ ws[1].value = val["a"]
    /\ ws[2].value # val["a"] /\ ws[3].value # val["a"]
    /\ ws[2].value = ws[3].value

\* ------------------------------------------------------------------ C26

\* the records that got a new Observer in the step traced by tr
NewObservers(tr, v) == {i \in Events(tr, "newObserver") : tr[i].d = ObOf(v)}

\* C26: a record gets an Observer only when it has none, and keeps it; in
\* every state, observe(v, asRootData) on a record v that has an Observer
\* returns that Observer whatever shouldObserve is, creates no Observer,
\* leaves every subscriber list and every closure as it is, and adds 1 to
\* the Observer's vmCount when asRootData is set and nothing otherwise
C26_ObserveIdempotent ==
    /\ [](\A v \in observed, r \in BOOLEAN :
            Bind(finish(observe(begin(St), v, r), TRUE), LAMBDA s :
                /\ s.ret = ObRef(v)
                /\ Events(s.trace, "newObserver") = {}
                /\ s.observed = observed /\ s.subs = subs
                /\ s.childObs = childObs /\ s.val = val /\ s.keys = keys
                /\ s.shouldObserve = shouldObserve
                /\ s.vmCount = [vmCount EXCEPT ![ContainerOf(v)] =
                                                 @ + (IF r THEN 1 ELSE 0)]))
    /\ [][/\ observed \subseteq observed'
          /\ \A v \in {ObjRef, RecRef} :
                /\ Cardinality(NewObservers(trace', v)) <= 1
                /\ NewObservers(trace', v) # {} => v \notin observed /\ v \in observed'
         ]_vars

\* observe(rec, true) was called while shouldObserve was false on the
\* record that had its Observer: the Observer is returned, none is
\* created, and its vmCount is 1
C26_Witness ==
    /\ ~shouldObserve /\ RecRef \in observed
    /\ \E i \in Events(trace, "observe") : trace[i].x = RecRef /\ trace[i].y = 1
    /\ Events(trace, "newObserver") = {}
    /\ ret = ObRef(RecRef)
    /\ vmCount["rec"] = 1

\* ------------------------------------------------------------------ C27

\* C27: no Observer is made at a moment when shouldObserve is false, and a
\* step that leaves the flag false throughout gives no record an Observer;
\* observe(v, asRootData) on a record v without Observer returns undefined
\* and changes nothing (no Observer, no closure, no subscriber list, no
\* vmCount); and this.p = v for such a record v stores v, leaves v without
\* Observer and the closure of p without childOb, and calls notify() of
\* the Dep of p on the copy of its subscribers
C27_ObservationToggle ==
    /\ [](~shouldObserve =>
            \A v \in {ObjRef, RecRef} \ observed :
                /\ \A r \in BOOLEAN :
                      Bind(finish(observe(begin(St), v, r), TRUE), LAMBDA s :
                          /\ s.ret = Undefined
                          /\ Events(s.trace, "newObserver") = {}
                          /\ s.observed = observed /\ s.subs = subs
                          /\ s.childObs = childObs /\ s.val = val /\ s.keys = keys
                          /\ s.vmCount = vmCount /\ ~s.shouldObserve)
                /\ \A p \in Props :
                      (pc = "idle" /\ val[p] # v) =>
                      Bind(finish(reactiveSetter(begin(St), p, v), FALSE), LAMBDA s :
                          /\ s.val[p] = v
                          /\ s.observed = observed /\ ~s.childObs[p]
                          /\ s.vmCount = vmCount
                          /\ Events(s.trace, "newObserver") = {}
                          /\ \E n \in Notifies(s.trace) :
                                /\ s.trace[n].d = p /\ s.trace[n].x = subs[p]
                                /\ subs[p] # <<>> => Delivered(s.trace, n) # <<>>))
    /\ [][/\ \A i \in Events(trace', "newObserver") : trace'[i].x = 1
          /\ (~shouldObserve /\ Events(trace', "validateProp") = {}) =>
                observed' = observed /\ Events(trace', "newObserver") = {}]_vars

\* with shouldObserve false the record without Observer was written into
\* b: it has no Observer, the closure of b no childOb, and the notify() of
\* the write has put the watcher of b in the queue
C27_Witness ==
    /\ ~shouldObserve
    /\ val["b"] = RecRef /\ RecRef \notin observed /\ ~childObs["b"]
    /\ \E n \in Notifies(trace) : trace[n].d = "b" /\ Delivered(trace, n) = <<1>>
    /\ queue = <<1>> /\ tick = 1

\* ------------------------------------------------------------------ C28

\* the notify() calls of the own Dep of watcher c that tr holds
OwnNotifies(tr, c) == {n \in Notifies(tr) : tr[n].d = OwnDep(c)}

\* C28: a write that calls update() on a computed watcher c whose own Dep
\* has a subscriber makes c call its getter inside the write and cache the
\* new value, and the own Dep of c is notified, and the batched watchers
\* subscribed to it that were not queued are queued, when and only when
\* the new value of c is another value than the cached one
C28_ActivatedComputed ==
    [][\A c \in 1 .. Len(prog.ws) :
          (/\ pc = "idle" /\ prog.ws[c].computed /\ subs[OwnDep(c)] # <<>>
           /\ Events(trace', "set") # {} /\ At(trace', "update", c) # {}) =>
              /\ At(trace', "get", c) # {}
              /\ ws'[c].value = getterValue(prog.ws[c].getter, val')
              /\ (OwnNotifies(trace', c) # {}) <=> (ws'[c].value # ws[c].value)
              /\ \A o \in Range(subs[OwnDep(c)]) :
                    (IsBatched(o) /\ o \notin has) =>
                        (o \in has' <=> ws'[c].value # ws[c].value)
      ]_vars

\* ------------------------------------------------------------------ C29

\* the getters that read properties and do nothing else
PureGetters == {"a", "b", "cond", "prod", "obj"}

\* C29: the iteration of the flush loop that runs an active watcher w whose
\* getter returns v calls the callback of w once, with v and the value w
\* had cached, when v is another value than the cached one (NaN being the
\* same value as NaN), or v is a record, or w is deep; otherwise it does
\* not call the callback
C29_CallbackWhenChanged ==
    [][(pc = "loop" /\ runLog' # runLog) =>
          LET w == queue[index + 1]
              v == getterValue(prog.ws[w].getter, val)
          IN  (ws[w].active /\ prog.ws[w].getter \in PureGetters) =>
                 IF v # ws[w].value \/ isObject(v) \/ prog.ws[w].deep
                 THEN /\ Cardinality(At(trace', "cb", w)) = 1
                      /\ \A i \in At(trace', "cb", w) :
                            trace'[i].x = v /\ trace'[i].y = ws[w].value
                 ELSE At(trace', "cb", w) = {}
      ]_vars

\* ------------------------------------------------------------------ C30

\* the getters that throw when the property they read first is 1, that
\* property, and the Deps they have read when they throw
ThrowingGetters == {"throwA", "throwB", "readThrow"}
ThrowProp(g) == IF g = "throwB" THEN "b" ELSE "a"
ThrowReads(g) ==
    CASE g = "throwA" -> <<"a">>
      [] g = "throwB" -> <<"b">>
      [] g = "readThrow" -> <<"a", "b">>

\* C30: a step in which the getter of a watcher w that is not a user
\* watcher throws ends with the error out of the handler that evaluated w
\* (nothing handled it, no callback of w ran); before that get() has
\* popped w off the context, which is empty when the step ends, and
\* cleanupDeps has made deps the Deps read before the throw, w being a
\* subscriber of each of them and newDeps empty; value is what it was
C30_FatalErrors ==
    [][\A w \in 1 .. Len(prog.ws) :
          (/\ ~prog.ws[w].user /\ prog.ws[w].getter \in ThrowingGetters
           /\ At(trace', "get", w) # {}
           /\ val'[ThrowProp(prog.ws[w].getter)] = 1) =>
              /\ At(trace', "handled", w) = {} /\ At(trace', "cb", w) = {}
              /\ \E i \in At(trace', "get", w), j \in Events(trace', "pop"),
                    k \in Events(trace', "escaped") :
                    /\ i < j /\ j < k
                    /\ \A l \in j + 1 .. k - 1 :
                          trace'[l].k \in {"notified", "pop"}
              /\ target' = NoTarget /\ targetStack' = <<>>
              /\ ws'[w].deps = ThrowReads(prog.ws[w].getter)
              /\ ws'[w].depIds = Range(ws'[w].deps)
              /\ ws'[w].newDeps = <<>> /\ ws'[w].newDepIds = {}
              /\ \A d \in Range(ws'[w].deps) : w \in Range(subs'[d])
              /\ ws'[w].value = ws[w].value
      ]_vars

\* the flush ran the watcher whose getter read a, then b for the first
\* time, and threw: the error left the flush, the watcher has a and b as
\* deps and is subscribed to both, and its value is the one of before
C30_Witness ==
    /\ prog = ProgFatal
    /\ At(trace, "get", 1) # {} /\ Events(trace, "escaped") # {}
    /\ val["a"] = 1
    /\ ws[1].deps = <<"a", "b">> /\ 1 \in Range(subs["b"])
    /\ ws[1].value = 0
    /\ target = NoTarget /\ targetStack = <<>>

\* --------------------------------------------------------------- events
\* The emitter of one component for one event e. A handler is the function
\* fn itself (what $on stores, n = 0) or the n-th wrapper `on` made by
\* $once, with on.fn = fn. The functions: "f" does nothing; "reemit" calls
\* vm.$emit(e) the first time it is called after it was registered.
MaxHandlers == 3
MaxOnce == 2
Fns == {"f", "reemit"}
Handler(fn, n) == [fn |-> fn, n |-> n]

\* the state of the emitter as one record
Em == [events |-> events, armed |-> armed, calls |-> calls, wrappers |-> wrappers,
       offed |-> offed]

\* vm.$on(e, fn) for a function or a wrapper
on(e0, h) == [e0 EXCEPT !.events = Append(@, h)]

\* the index i (from the last down to 1) of the first handler with
\* cb === fn || cb.fn === fn, or 0
RECURSIVE offScan(_, _, _)
offScan(cbs, h, i) ==
    IF i = 0 THEN 0
    ELSE IF cbs[i] = h \/ (h.n = 0 /\ cbs[i].n # 0 /\ cbs[i].fn = h.fn) THEN i
    ELSE offScan(cbs, h, i - 1)

\* vm.$off(e, fn): cbs.splice(i, 1) for the handler the scan finds
off(e0, h) ==
    LET i == offScan(e0.events, h, Len(e0.events)) IN
    IF i = 0 THEN e0
    ELSE [e0 EXCEPT !.events = SubSeq(@, 1, i - 1) \o SubSeq(@, i + 1, Len(@))]

RECURSIVE emit(_)
RECURSIVE emitLoop(_, _, _)
\* cbs[i].apply(vm, args): a wrapper takes itself out with vm.$off(e, on)
\* and calls fn; calls counts 0, 1, "2 or more"
apply(e0, h) ==
    LET e1 == IF h.n = 0 THEN e0
              ELSE [off(e0, h) EXCEPT !.calls[h.n] = IF @ < 2 THEN @ + 1 ELSE @] IN
    IF h.fn = "reemit" /\ e1.armed THEN emit([e1 EXCEPT !.armed = FALSE]) ELSE e1

\* for (let i = 0, l = cbs.length; i < l; i++) cbs[i].apply(vm, args)
emitLoop(e0, cbs, i) ==
    IF i > Len(cbs) THEN e0 ELSE emitLoop(apply(e0, cbs[i]), cbs, i + 1)

\* vm.$emit(e): the loop is over a copy of the array when it has more than
\* one handler, and otherwise reads its one handler before calling it
emit(e0) == emitLoop(e0, e0.events, 1)

\* the next state of the emitter is the record e
EmBecomes(e) ==
    /\ events' = e.events /\ armed' = e.armed /\ calls' = e.calls
    /\ wrappers' = e.wrappers /\ offed' = e.offed
    /\ UNCHANGED graphVars
    /\ UNCHANGED <<prog, val, list, subs, ws, target, targetStack, queue, has,
                   circular, waiting, flushing, index, tick, pc, exc, ret, trace,
                   runLog, burst, coEnq, reent, warned, enqLog, lateEnq, reading,
                   lastReads, everRead, flushStatus, keys, observed, vmCount,
                   activatedChildren, shouldObserve, childObs, component>>

\* vm.$on(e, fn)
On(fn) ==
    /\ Len(events) < MaxHandlers
    /\ EmBecomes([on(Em, Handler(fn, 0)) EXCEPT !.armed = @ \/ fn = "reemit"])

\* vm.$once(e, fn)
Once(fn) ==
    /\ Len(events) < MaxHandlers /\ wrappers < MaxOnce
    /\ EmBecomes(on([Em EXCEPT !.wrappers = @ + 1], Handler(fn, wrappers + 1)))

\* vm.$off(e, fn)
Off(fn) ==
    LET i == offScan(events, Handler(fn, 0), Len(events)) IN
    EmBecomes([off(Em, Handler(fn, 0))
                 EXCEPT !.offed = IF i > 0 /\ events[i].n # 0
                                  THEN @ \cup {events[i].n} ELSE @])

\* vm.$off(e) and vm.$off()
OffAll == EmBecomes([Em EXCEPT !.events = <<>>])

\* vm.$emit(e)
Emit == EmBecomes(emit(Em))

EventsInit ==
    /\ Starts(created(ProgRecord)) /\ NoGraph
    /\ events = <<>> /\ armed = FALSE /\ calls = [n \in 1 .. MaxOnce |-> 0]
    /\ wrappers = 0 /\ offed = {}

EventsNext ==
    \/ \E fn \in Fns : On(fn)
    \/ Once("f")
    \/ \E fn \in Fns : Off(fn)
    \/ OffAll
    \/ Emit

EventsSpec == EventsInit /\ [][EventsNext]_vars

\* ------------------------------------------------------------------ C31

\* the callbacks that throw when they are called with value
ThrowingCallback(cb, value) == cb = "throw" \/ (cb = "throw1" /\ value = 1)

\* C31: an iteration of the flush loop that runs a user watcher lets no
\* error out; when the callback of the watcher is called and throws, the
\* error is handed to handleError once, as the error of the callback, the
\* watcher holds the value the callback was called with, and the loop goes
\* on with the next entry of the same queue; and a flush of the program
\* whose only error is that one ends with both watchers run, each holding
\* the value of a, and the scheduler reset
C31_UserCallbackError ==
    /\ [][(pc = "loop" /\ runLog' # runLog /\ prog.ws[queue[index + 1]].user) =>
            LET w == queue[index + 1] IN
            /\ Events(trace', "escaped") = {} /\ flushStatus' # "crashed"
            /\ \A i \in At(trace', "cb", w) :
                  ThrowingCallback(prog.ws[w].cb, trace'[i].x) =>
                      /\ Cardinality({j \in At(trace', "handled", w) :
                                         trace'[j].d = "callback"}) = 1
                      /\ \E j \in At(trace', "handled", w) :
                            j > i /\ trace'[j].d = "callback"
                      /\ ws'[w].value = trace'[i].x
                      /\ pc' = "loop" /\ index' = index + 1 /\ flushing'
                      /\ SubSeq(queue', 1, Len(queue)) = queue
          ]_vars
    /\ []((prog = ProgUserThrow /\ pc = "idle" /\ flushStatus # "none") =>
            /\ flushStatus = "completed" /\ runLog = <<1, 2>>
            /\ ws[1].value = val["a"] /\ ws[2].value = val["a"]
            /\ queue = <<>> /\ has = {} /\ index = 0 /\ ~waiting /\ ~flushing)

\* the flush ran the user watcher, whose callback threw and had its error
\* handled, and then the watcher behind it, and is over
C31_Witness ==
    /\ prog = ProgUserThrow /\ flushStatus = "completed" /\ pc = "idle"
    /\ runLog = <<1, 2>> /\ val["a"] = 1
    /\ ws[1].value = 1 /\ ws[2].value = 1
    /\ queue = <<>> /\ ~flushing

\* ------------------------------------------------------------------ C32

\* C32: every traverse() returns, having walked the members of each
\* container at most once, and leaves seenObjects empty
C32_TraversalTerminates ==
    walk # "none" =>
        /\ walk = "returned"
        /\ \A n \in Nodes : visits[n] <= 1
        /\ seenObjects = {}

\* the same holds of the graphs in which every container that is not
\* frozen carries an Observer
C32_ObservedTerminates ==
    (walk # "none" /\ Nodes \ frozen \subseteq carriesOb) =>
        /\ walk = "returned"
        /\ \A n \in Nodes : visits[n] <= 1
        /\ seenObjects = {}

\* a traversal of a cycle of two observed containers has returned
C32_ObservedWitness ==
    /\ walk = "returned" /\ carriesOb = Nodes /\ frozen = {}
    /\ members = <<<<2>>, <<1>>>> /\ visits = <<1, 1>>

\* ------------------------------------------------------------------ C33

\* the watchers with the sync option
SyncWatchers == {w \in 1 .. Len(prog.ws) : prog.ws[w].sync /\ ~prog.ws[w].computed}

\* C33: a sync watcher is never in the queue nor in has; every update() of
\* a sync watcher calls run() at once, which for an active watcher calls
\* get(), all within the handler that made the write; no step queues a sync
\* watcher, and every nextTick follows the enqueue of a watcher that is not
\* sync; and when the handler returns without an error, a sync watcher with
\* a pure getter that was updated and is not torn down holds the value of
\* its getter in the new state, its callback having been called if that
\* value differs from the one it held
C33_SyncPolicy ==
    /\ [](\A w \in SyncWatchers : w \notin has /\ w \notin Range(queue))
    /\ [][\A i \in Events(trace', "update") :
            LET w == trace'[i].w IN
            w \in SyncWatchers =>
                /\ i + 1 \in At(trace', "run", w)
                /\ trace'[i].x = 1 => i + 2 \in At(trace', "get", w)
                /\ At(trace', "enq", w) = {}
                /\ (/\ prog.ws[w].getter \in PureGetters
                    /\ Events(trace', "escaped") = {}
                    /\ ws'[w].active /\ trace'[i].x = 1) =>
                        /\ ws'[w].value = getterValue(prog.ws[w].getter, val')
                        /\ ws'[w].value # ws[w].value => At(trace', "cb", w) # {}
          ]_vars
    /\ [][\A j \in Events(trace', "nextTick") :
            /\ j - 1 \in Events(trace', "enq")
            /\ trace'[j - 1].w \notin SyncWatchers
          ]_vars

\* the write a = 1 has returned: the sync watcher was updated, ran its
\* getter and its callback (which tore watcher 2 down) and holds 1, while
\* the batched watcher 3 waits in the queue for the flush
C33_Witness ==
    /\ prog = ProgTeardown /\ pc = "idle" /\ flushStatus = "none"
    /\ At(trace, "update", 1) # {} /\ At(trace, "cb", 1) # {}
    /\ ws[1].value = 1 /\ val["a"] = 1
    /\ 1 \notin Range(queue) /\ 3 \in Range(queue) /\ tick = 1

\* ------------------------------------------------------------------ C34

\* the positions of queue (from 1) that have not been run: all of them
\* outside a flush, those from the entry the loop takes next at the head of
\* the loop, and those behind the entry that was run last where the loop was
\* left in the middle of an iteration (the circular guard, an escaped error)
NotYetRun ==
    IF ~flushing THEN 1 .. Len(queue)
    ELSE IF pc = "loop" THEN (index + 1) .. Len(queue)
    ELSE (index + 2) .. Len(queue)

\* C34: between the steps of the scheduler has holds exactly the watchers
\* at the positions of queue that have not been run, each of which is
\* there once; and a watcher that is updated while the flush runs it has had
\* its id taken out of has before, so that the update queues it again
\* behind the cursor
C34_MembershipMatchesQueue ==
    /\ [](/\ has = {queue[i] : i \in NotYetRun}
          /\ \A i, j \in NotYetRun : queue[i] = queue[j] => i = j)
    /\ [][(pc = "loop" /\ runLog' # runLog) =>
            LET w == queue[index + 1] IN
            At(trace', "update", w) # {} =>
                /\ At(trace', "enq", w) # {}
                /\ w \in has'
                /\ \E i \in (index + 2) .. Len(queue') : queue'[i] = w
          ]_vars

\* the flush has run watcher 1 once and is at the head of the loop again:
\* the callback incremented b, which the getter had read, so the watcher was
\* queued again behind the cursor, ahead of the watchers 2 and 3
C34_Witness ==
    /\ prog = ProgCycle /\ pc = "loop" /\ flushing
    /\ runLog = <<1>> /\ index = 1
    /\ queue = <<1, 1, 2, 3>> /\ has = {1, 2, 3}

\* ------------------------------------------------------------------ C35

\* during a flush the entries of queue that have not been run ascend, and
\* an iteration of the loop leaves the entries up to the one it runs as
\* they are
SortedBehindCursor ==
    /\ [](flushing => \A i, j \in NotYetRun : i < j => queue[i] < queue[j])
    /\ [][(pc = "loop" /\ runLog' # runLog) =>
            /\ Len(queue') >= index + 1
            /\ SubSeq(queue', 1, index + 1) = SubSeq(queue, 1, index + 1)
            /\ \A w \in enqLog'[Len(enqLog')] :
                  \E i \in (index + 2) .. Len(queue') : queue'[i] = w
          ]_vars

\* every watcher queued by run i of the flush was run by a later run of it
RanLater ==
    \A i \in DOMAIN enqLog : \A w \in enqLog[i] :
        \E j \in DOMAIN runLog : j > i /\ runLog[j] = w

\* C35: during a flush the part of queue that has not been run is in
\* strictly ascending id order, an enqueue during the flush inserts behind
\* the cursor, and when the flush is over every watcher queued during it
\* has run later in it
C35_SortedTail ==
    /\ SortedBehindCursor
    /\ [](FlushOver => RanLater)

\* C35 amended: ... and when the loop has reached the end of the queue
\* every watcher queued during the flush has run later in it
C35_SortedTailToTheEnd ==
    /\ SortedBehindCursor
    /\ [](flushStatus = "completed" => RanLater)

\* a completed flush in which a run queued a watcher that was put ahead of
\* a watcher with a greater id, pending since before the flush, and ran
\* before it
C35_Witness ==
    /\ flushStatus = "completed"
    /\ \E i \in DOMAIN enqLog : \E w \in enqLog[i] :
          \E j, k \in DOMAIN runLog :
              /\ i < j /\ j < k /\ runLog[j] = w /\ runLog[k] > w
              /\ \A h \in DOMAIN enqLog : runLog[k] \notin enqLog[h]

\* ------------------------------------------------------------------ C36

\* the computed watchers whose getter is pure
PureComputed ==
    {w \in 1 .. Len(prog.ws) : prog.ws[w].computed /\ prog.ws[w].getter \in PureGetters}

\* C36: in every state an active computed watcher with a pure getter that
\* is not dirty (a computed watcher is created dirty, so it has been
\* evaluated) holds the value its getter yields from the current values of
\* the properties, with and without subscribers of its Dep
C36_NeverStale ==
    \A w \in PureComputed :
        (ws[w].active /\ ~ws[w].dirty) =>
            ws[w].value = getterValue(prog.ws[w].getter, val)

\* the computed product has a subscriber; the write that ended last
\* evaluated it again inside update(), and it holds the new product
C36_Witness ==
    /\ prog = ProgProduct /\ pc = "idle"
    /\ Len(subs[OwnDep(1)]) > 0 /\ ws[1].active /\ ~ws[1].dirty
    /\ val["a"] = 1 /\ val["b"] = 1 /\ ws[1].value = 1
    /\ Events(trace, "set") # {} /\ At(trace, "get", 1) # {}

\* the computed property a, without subscribers, was marked dirty by a
\* write of a and evaluated by the read that ended last
C36_LazyWitness ==
    /\ prog = ProgLazy /\ pc = "idle" /\ flushStatus = "none"
    /\ Len(subs[OwnDep(1)]) = 0
    /\ ~ws[1].dirty /\ ws[1].value = 1 /\ val["a"] = 1
    /\ At(trace, "get", 1) # {}

\* ------------------------------------------------------------------ C37

\* watcher w is in the subs of no Dep
Unsubscribed(sb, w) == \A d \in DOMAIN sb : w \notin Range(sb[d])

\* the $destroy() that destroys the component leaves the Observer of the
\* root data with vmCount one less and not negative, and a $destroy() of a
\* component that is being destroyed or is destroyed calls no hook and
\* changes nothing
DestroyOnce ==
    [][Events(trace', "destroy") # {} =>
        IF component.isBeingDestroyed
        THEN /\ Events(trace', "hook") = {}
             /\ UNCHANGED <<val, list, subs, ws, vmCount, component, queue, has,
                            waiting, tick, target, targetStack, keys, observed>>
        ELSE /\ component'.isBeingDestroyed /\ component'.isDestroyed
             /\ vmCount'["root"] = vmCount["root"] - 1
             /\ vmCount'["root"] >= 0
      ]_vars

\* C37: when the $destroy() that destroys the component returns, every
\* watcher of the component is inactive and in the subs of no Dep, the
\* vmCount of the root data's Observer is one less and not negative; a
\* later $destroy() changes nothing and calls no hook
C37_DestroyReleases ==
    /\ DestroyOnce
    /\ [][(Events(trace', "destroy") # {} /\ ~component.isBeingDestroyed) =>
            \A w \in 1 .. Len(prog.ws) :
                ~ws'[w].active /\ Unsubscribed(subs', w)
         ]_vars

\* the same for the watchers that were evaluated before $destroy()
C37_EvaluatedReleased ==
    [][(Events(trace', "destroy") # {} /\ ~component.isBeingDestroyed) =>
            \A w \in 1 .. Len(prog.ws) :
                /\ ~ws'[w].active
                /\ ws[w].deps # <<>> => Unsubscribed(subs', w)
      ]_vars

\* the component was destroyed after its computed property had been read:
\* no watcher is active or subscribed, and vmCount of the root data is 0
C37_ReleasedWitness ==
    /\ prog = ProgDestroy /\ component.isDestroyed
    /\ Events(trace, "destroy") # {} /\ Events(trace, "hook") # {}
    /\ \A w \in 1 .. 3 : ~ws[w].active /\ Unsubscribed(subs, w)
    /\ vmCount["root"] = 0

\* ------------------------------------------------------------------ C38

\* the handlers that switch the observation off while they work
PropHandlers == {"initProps", "updateChildComponent", "initInjections"}

\* C38: between the handlers of the component with props shouldObserve is
\* true, whether the last handler returned or threw; and a call of
\* validateProp from outside them leaves shouldObserve as it was
C38_FlagRestored ==
    /\ [](prog.propsOps => shouldObserve)
    /\ [][(Events(trace', "validateProp") # {}
            /\ \A i \in DOMAIN trace' : trace'[i].k \notin PropHandlers) =>
                shouldObserve' = shouldObserve
         ]_vars

\* what holds: a handler that returns leaves shouldObserve true, and
\* validateProp leaves it as it was, by return and by exception
C38_RestoredOnReturn ==
    /\ [][(\E i \in DOMAIN trace' : trace'[i].k \in PropHandlers)
            /\ Events(trace', "escaped") = {} => shouldObserve'
         ]_vars
    /\ [][(Events(trace', "validateProp") # {}
            /\ \A i \in DOMAIN trace' : trace'[i].k \notin PropHandlers) =>
                shouldObserve' = shouldObserve
         ]_vars

\* updateChildComponent has returned with the plain record stored in the
\* prop while the observation was off: the record has no Observer and
\* shouldObserve is true again
C38_ReturnedWitness ==
    /\ prog = ProgProps /\ Events(trace, "updateChildComponent") # {}
    /\ Events(trace, "escaped") = {} /\ shouldObserve
    /\ val["b"] = RecRef /\ RecRef \notin observed

\* ------------------------------------------------------------------ C39

\* the calls of the updated hook in tr, in order
UpdatedHooks(tr) == {i \in Events(tr, "hook") : tr[i].d = "updated"}

\* C39: the step that ends a flush calls the updated hook at most once for
\* a component, only for components whose render watcher the flush ran, and
\* for two components in the reverse of the order their render watchers ran
C39_UpdatedOnce ==
    [][(pc # "idle" /\ Events(trace', "reset") # {}) =>
        /\ \A i, j \in UpdatedHooks(trace') : trace'[i].w = trace'[j].w => i = j
        /\ \A i \in UpdatedHooks(trace') :
              /\ prog.ws[trace'[i].w].render
              /\ trace'[i].w \in Range(runLog)
        /\ \A i, j \in UpdatedHooks(trace') :
              i < j => \E p, q \in DOMAIN runLog :
                          /\ q < p /\ runLog[p] = trace'[i].w /\ runLog[q] = trace'[j].w
      ]_vars

\* what holds: one call of the updated hook for every entry of the queue
\* that is a render watcher, from the last entry to the first
C39_UpdatedPerEntry ==
    [][(pc # "idle" /\ Events(trace', "reset") # {}) =>
        LET r == {k \in DOMAIN queue : prog.ws[queue[k]].render} IN
        /\ Cardinality(UpdatedHooks(trace')) = Cardinality(r)
        /\ \A n \in 1 .. Cardinality(r) :
              trace'[Nth(trace', UpdatedHooks(trace'), n)].w
                  = queue[Nth(queue, r, Cardinality(r) + 1 - n)]
      ]_vars

\* a flush in which the render watcher ran twice has ended, and the
\* updated hook of its component was called twice
C39_TwiceWitness ==
    /\ prog = ProgRerender /\ flushStatus = "completed"
    /\ runLog = <<1, 2, 1>>
    /\ Cardinality(UpdatedHooks(trace)) = 2

\* ------------------------------------------------------------------ C40

\* C40: fn is called at most once through each $once wrapper, and never
\* through a wrapper that $off(e, fn) took out before it was called
C40_OnceAtMostOnce ==
    /\ [](\A n \in 1 .. wrappers : calls[n] <= 1)
    /\ [][\A n \in offed : calls'[n] = calls[n]]_vars

\* what holds of an emit whose handlers do not emit e again
C40_OnceWithoutReentry ==
    [][(~armed \/ \A i \in DOMAIN events : events[i].fn # "reemit") =>
            \A n \in 1 .. MaxOnce : calls[n] <= 1 => calls'[n] <= 1]_vars

\* f was registered with $once, called through its wrapper by an emit, and
\* is no handler of e any more
C40_OnceWitness ==
    /\ wrappers = 1 /\ calls[1] = 1 /\ events = <<>> /\ offed = {}

====
